---- MODULE Spec2Model ----
(***************************************************************************)
(* A model of the real-time core of the AI sequencer.                      *)
(*                                                                         *)
(*  - v2 (src/ai-sequencer-v2.py): LiveSequencer.run, _process_notes,      *)
(*    note_on / note_off / note_retrigger, the loop-boundary flush,        *)
(*    EvolutionEngine.evolve, the signal handler and all_notes_off.        *)
(*  - v2's EvolutionEngine on its own: evolve, add_note, remove_note.      *)
(*  - v1 (src/ai-sequencer.py): play_pattern and the NoteTracker,          *)
(*    all_notes_off, and the MidiClock with its clock thread.              *)
(*  - the selection of the output port (open_port, open_midi_output,       *)
(*    midi_panic) and the start of main (v1) and of play_live (v2).        *)
(*  - v1's LaneState and its evolve.                                       *)
(*  - the end of play_live (v2): its finally block and the global          *)
(*    midi_out; a later run of LiveSequencer in the same process.          *)
(*  - the playback loop of v1's main and its finally block; repeated       *)
(*    calls of MidiClock.start and stop.                                   *)
(*                                                                         *)
(* Real numbers are kept as integers: an intensity is a percentage         *)
(* (0.5 is 50), the evolution rate is a percentage (0.05 is 5), and a      *)
(* duration factor is a percentage (0.8 is 80).  In LiveSequencer and in   *)
(* play_pattern wall-clock time is not modelled: whether the clock pulse   *)
(* or the tick is due in an iteration of the run loop is a                 *)
(* nondeterministic choice, and a sleep is a step that changes no state.   *)
(* The MidiClock reads an explicit clock that advances in units of 50 ms.  *)
(* Any send on the MIDI port may raise.                                    *)
(***************************************************************************)
EXTENDS Integers, Sequences, FiniteSets, TLC

\* ------------------------------------------------------------------------
\* Bounds of the model
\* ------------------------------------------------------------------------

\* largest loop bound drawn for max_loops, and the number of loop boundaries
\* after which an unbounded run (max_loops = 0) is no longer followed
MaxLoopCount == 2

\* cap on EvolutionEngine.mutations_count within one run
MaxMutations == 1

\* ------------------------------------------------------------------------
\* Program constants
\* ------------------------------------------------------------------------

ticks_per_beat == 480

\* evolution_rate = 0.05, as a percentage
evolution_rate == 5

\* intensity returned for an empty curve, 0.5, as a percentage
DefaultIntensity == 50

MinVelocity == 1

MaxVelocity == 127

\* minimum gate length of a mutated duration
MinDuration == 60

\* floor of a mutated velocity
MinEvolvedVelocity == 30

BassMinPitch == 48

BassMaxPitch == 72

OtherMinPitch == 36

OtherMaxPitch == 96

\* channels tracked in LiveSequencer.active_notes: {0: [], 1: [], 2: [], 3: []}
TrackedChannels == 0..3

\* mutant of FlushChannels: range(3)
FlushChannelsShort == <<0, 1, 2>>

\* channels the loop-boundary flush visits: range(4)
FlushChannels == <<0, 1, 2, 3>>

\* mutant of PanicChannels: range(1, 16)
PanicChannelsFromOne == 1..15

\* channels and notes all_notes_off silences: range(16) and range(128)
PanicChannels == 0..15

PanicNotes == 0..127

Max(a, b) == IF a >= b THEN a ELSE b

Min(a, b) == IF a <= b THEN a ELSE b

\* max(lo, min(hi, x))
Clamp(lo, hi, x) == Max(lo, Min(hi, x))

\* ------------------------------------------------------------------------
\* Inputs: the Plan and the Pattern handed to LiveSequencer
\* ------------------------------------------------------------------------

Note(p, v, s, d) == [pitch |-> p, velocity |-> v, start |-> s, duration |-> d]

Voice(ch, ns) == [channel |-> ch, notes |-> ns]

\* Scenario A of the specification: one note at the start of the loop.
PatternA == << Voice(0, << Note(60, 100, 0, 480) >>) >>

\* Scenario B (A ends where B starts, same channel and pitch), a note that
\* starts with the loop, and a second voice starting where A ends.
PatternB ==
  << Voice(0, << Note(60, 100, 120, 120), Note(60, 100, 240, 120) >>),
     Voice(1, << Note(64, 90, 0, 240), Note(67, 90, 240, 120) >>) >>

\* Overlapping notes of one pitch (a retrigger) and a note that is still
\* sounding when the loop ends.
PatternC ==
  << Voice(0, << Note(60, 100, 120, 240), Note(60, 110, 240, 60) >>),
     Voice(3, << Note(72, 80, 360, 240) >>) >>

\* A voice on a MIDI channel the scheduler keeps no active list for.
PatternD ==
  << Voice(1, << Note(64, 100, 120, 120) >>),
     Voice(4, << Note(50, 100, 240, 120) >>) >>

\* Two notes of one pitch a few ticks apart, played with an intensity that
\* lets evolve move them onto each other.
PatternE ==
  << Voice(2, << Note(62, 100, 100, 120), Note(62, 100, 240, 120) >>) >>

\* Velocities above and below the MIDI range and a pitch above it.
PatternF ==
  << Voice(1, << Note(64, 200, 120, 60), Note(65, 0, 180, 60),
                 Note(128, 100, 300, 60) >>) >>

\* plan.duration_bars, plan.time_signature[0], plan.intensity_curve and the
\* Pattern, as one input record
Input(bars, beats, curve, seqs) ==
  [duration_bars |-> bars, beats_per_bar |-> beats,
   intensity_curve |-> curve, sequences |-> seqs]

Inputs ==
  { Input(1, 1, << >>, PatternA),
    Input(1, 1, << 0, 100 >>, PatternB),
    Input(1, 1, << 0, 100 >>, PatternC),
    Input(1, 1, << >>, PatternD),
    Input(1, 1, << 100, 0 >>, PatternE),
    Input(1, 1, << 0 >>, PatternF) }

\* ------------------------------------------------------------------------
\* State
\* ------------------------------------------------------------------------

VARIABLES
  running,          \* the module-level flag `running`
  sequences,        \* the Pattern: voices in dict order, each with its notes
  intensity_curve,  \* plan.intensity_curve
  loop_length,      \* LiveSequencer.loop_length
  max_loops,        \* LiveSequencer.max_loops
  current_tick,     \* LiveSequencer.current_tick
  loop_count,       \* the local loop_count of run
  active_notes,     \* LiveSequencer.active_notes: channel -> list of pitches
  mutations_count,  \* EvolutionEngine.mutations_count
  pc,               \* position of the main thread inside run
  note_offs,        \* _process_notes: note-offs of this tick still to send
  note_ons,         \* _process_notes: note-ons of this tick still to send
  exit_via,         \* how the run loop was left: none, bound, shutdown, exception
  tick_log,         \* history: messages sent by the current _process_notes call
  ons_this_loop,    \* history: <<channel, pitch, tick>> of note-ons of this loop
  ever_on,          \* history: <<channel, pitch>> that received a note-on
  sounding,         \* history: pairs whose latest message is a sounding note-on
  late_ticks,       \* history: tick updates made after running was cleared
  pre_flush,        \* history: pairs active when the last boundary was reached
  flush_log,        \* history: note-offs sent by the last boundary flush
  flush_count,      \* history: completed boundary flushes
  evolve_calls,     \* history: calls of EvolutionEngine.evolve
  last_intensity,   \* history: intensity of the last evolve call, -1 if none
  failed_send,      \* history: the send that raised inside the loop, or "none"
  stop_sent,        \* history: the 'stop' message was sent
  panic_cover,      \* history: channels/notes silenced by all_notes_off at exit
  shutdown_event,   \* v1: the global _shutdown_event
  patt,             \* v1: the pattern handed to play_pattern, lane -> events
  v1_pc,            \* v1: position inside play_pattern
  v1_step,          \* v1: the step s of "for s in range(total_steps)"
  v1_lane,          \* v1: index of the lane in ("melody", "bass", "lead")
  v1_ev,            \* v1: index of the event in schedules[name][s]
  note_tracker,     \* v1: _note_tracker.active_notes as <<channel, note>> pairs
  v1_log,           \* v1 history: the sends play_pattern attempted
  last_assigned,    \* history: <<voice, note, field>> assigned by the last evolve
  add_calls,        \* history: calls of EvolutionEngine.add_note
  remove_calls,     \* history: calls of EvolutionEngine.remove_note
  panic_calls,      \* v1 history: completed calls of all_notes_off
  panic_ch,         \* v1: all_notes_off, index of the channel of the CC loop
  panic_log,        \* v1 history: the sends of the current all_notes_off call
  clock_enable,     \* v1: cfg["clock_enable"]
  clock_running,    \* v1: MidiClock.running
  clk_main,         \* v1: position of the main thread in MidiClock.start / stop
  clk_pc,           \* v1: position of the clock thread in MidiClock._run
  interval,         \* v1: _run, time between pulses, in time units
  now,              \* v1: time.perf_counter(), in time units
  next_tick,        \* v1: _run, the absolute deadline next_tick
  sleep_time,       \* v1: _run, the local sleep_time
  join_from,        \* v1: the time at which stop() began thread.join
  clock_log,        \* v1 history: realtime messages sent, in order
  clock_hist,       \* v1 history: facts about the pulses of _run
  device_names,     \* what mido.get_output_names() returns, names as letters
  device_hint,      \* the device hint handed to the program
  port_call,        \* the function that selected a port, or "none"
  port_ret,         \* what the selection came to: outcome and target name
  startup,          \* what main / play_live did around the selection
  motif,            \* v1: LaneState.motif
  register,         \* v1: LaneState.register
  rotation,         \* v1: LaneState.rotation
  max_reg,          \* v1: LaneState.max_reg
  lane_calls,       \* v1 history: calls of LaneState.evolve
  lane_prev_len,    \* v1 history: len(motif) before the last evolve call
  clk_extra,        \* v1: pulse threads started while an earlier one was alive
  clk_calls,        \* v1 history: further calls of MidiClock.start / stop
  midi_out,         \* v2: the global midi_out, "None" or "port"
  port_open,        \* v2: the port play_live opened has not been closed
  live_pc,          \* v2: position of the main thread inside play_live
  closed_sends,     \* v2 history: sends of the signal handler on a closed port
  live_signals,     \* v2 history: signals delivered during play_live
  runs,             \* v2 history: runs of LiveSequencer.run that have ended
  prior,            \* v2 history: exit and running flag of the run before
  main_pc,          \* v1: position of the main thread in main's playback
  bars_passed,      \* v1: the local bars_passed of main
  lane_gen,         \* v1: lane -> calls of its LaneState.evolve made by main
  evolve_every,     \* v1: lane -> its "*_evolve_every_bars" of CONFIG
  built_from,       \* v1 history: lane_gen at the last build_pattern
  cycles,           \* v1 history: calls of play_pattern made by main
  cleanup_log       \* v1 history: the steps of main's finally block, in order

plan_vars == <<intensity_curve, loop_length, max_loops>>

queue_vars == <<note_offs, note_ons>>

boundary_hist ==
  <<pre_flush, flush_log, flush_count, evolve_calls, last_intensity, last_assigned>>

\* calls of the note insertion and deletion operators
edit_calls == <<add_calls, remove_calls>>

exit_hist == <<stop_sent, panic_cover>>

\* the state of a LiveSequencer and of its run
sequencer_vars ==
  <<sequences, plan_vars, current_tick, loop_count, active_notes,
    mutations_count, pc, queue_vars, exit_via, tick_log, ons_this_loop,
    ever_on, sounding, late_ticks, boundary_hist, failed_send, exit_hist,
    edit_calls>>

\* the state of v2: the global running, and the LiveSequencer
v2_vars == <<running, sequencer_vars>>

\* the state of v1's all_notes_off
panic_vars == <<panic_calls, panic_ch, panic_log>>

\* the state of v1's MidiClock
clock_vars ==
  <<clock_enable, clock_running, clk_main, clk_pc, interval, now, next_tick, sleep_time,
    join_from, clock_log, clock_hist, clk_extra, clk_calls>>

\* the state of the port selection and of startup
port_vars == <<device_names, device_hint, port_call, port_ret, startup>>

\* the state of a LaneState
lane_vars == <<motif, register, rotation, max_reg, lane_calls, lane_prev_len>>

\* the state of v2's play_live around the run
live_vars == <<midi_out, port_open, live_pc, closed_sends, live_signals>>

\* what a run of LiveSequencer leaves to the next one in the process
rerun_vars == <<runs, prior>>

\* the state of v1's main around play_pattern
main_vars ==
  <<main_pc, bars_passed, lane_gen, evolve_every, built_from, cycles, cleanup_log>>

process_vars == <<live_vars, rerun_vars, main_vars>>

\* the parts that are followed on their own
unit_vars == <<port_vars, lane_vars, process_vars>>

\* the state of v1 (play_pattern, all_notes_off, MidiClock) and the units
v1_vars ==
  <<shutdown_event, patt, v1_pc, v1_step, v1_lane, v1_ev, note_tracker, v1_log,
    panic_vars, clock_vars, unit_vars>>

vars == <<v2_vars, v1_vars>>

NoCover == [channels |-> {}, notes |-> {}]

\* LiveSequencer.__init__ and the module-level globals, for the inputs in
\* ins and the loop bounds in bounds, the main thread at position at
SequencerInit(ins, bounds, at) ==
  /\ running = TRUE
  /\ \E in \in ins :
       /\ sequences = in.sequences
       /\ intensity_curve = in.intensity_curve
       /\ loop_length = in.duration_bars * ticks_per_beat * in.beats_per_bar
  /\ max_loops \in bounds
  /\ current_tick = 0
  /\ loop_count = 0
  /\ active_notes = [c \in TrackedChannels |-> << >>]
  /\ mutations_count = 0
  /\ pc = at
  /\ note_offs = << >>
  /\ note_ons = << >>
  /\ exit_via = "none"
  /\ tick_log = << >>
  /\ ons_this_loop = {}
  /\ ever_on = {}
  /\ sounding = {}
  /\ late_ticks = 0
  /\ pre_flush = {}
  /\ flush_log = << >>
  /\ flush_count = 0
  /\ evolve_calls = 0
  /\ last_intensity = -1
  /\ last_assigned = {}
  /\ add_calls = 0
  /\ remove_calls = 0
  /\ failed_send = "none"
  /\ stop_sent = FALSE
  /\ panic_cover = NoCover

\* ------------------------------------------------------------------------
\* _process_notes: collecting the events of one tick
\* ------------------------------------------------------------------------

\* the tick at which the note-off of a note is collected
EndPos(note, len) ==
  LET note_end == note.start + note.duration
  IN  IF note_end <= len THEN note_end ELSE note_end % len

\* the note-offs one voice contributes at position pos
VoiceOffs(seq, len, pos) ==
  LET due == SelectSeq(seq.notes, LAMBDA n : EndPos(n, len) = pos)
  IN  [i \in 1..Len(due) |-> <<seq.channel, due[i].pitch>>]

\* the note-ons one voice contributes at position pos
VoiceOns(seq, pos) ==
  LET due == SelectSeq(seq.notes, LAMBDA n : n.start = pos)
  IN  [i \in 1..Len(due) |->
         <<seq.channel, due[i].pitch,
           Clamp(MinVelocity, MaxVelocity, due[i].velocity)>>]

RECURSIVE CollectOffs(_, _, _, _)
CollectOffs(seqs, k, len, pos) ==
  IF k > Len(seqs) THEN << >>
  ELSE VoiceOffs(seqs[k], len, pos) \o CollectOffs(seqs, k + 1, len, pos)

RECURSIVE CollectOns(_, _, _)
CollectOns(seqs, k, pos) ==
  IF k > Len(seqs) THEN << >>
  ELSE VoiceOns(seqs[k], pos) \o CollectOns(seqs, k + 1, pos)

\* mutant of DispatchPhase: the note-ons of the tick go out first
DispatchPhaseOnsFirst(offs, ons) ==
  IF ons # << >> THEN "ons"
  ELSE IF offs # << >> THEN "offs"
  ELSE "while"

\* mutant of DispatchPhase: after the last event of a tick the loop body is
\* entered again without the test of "while running"
DispatchPhaseSkipsCheck(offs, ons) ==
  IF offs # << >> THEN "offs"
  ELSE IF ons # << >> THEN "ons"
  ELSE "body"

\* "Erst ALLE Note-Offs senden ... Dann ALLE Note-Ons senden": the loop the
\* dispatcher is in, given what is still to send
DispatchPhase(offs, ons) ==
  IF offs # << >> THEN "offs"
  ELSE IF ons # << >> THEN "ons"
  ELSE "while"

\* mutant of IsAlreadyActive: the test is skipped
NeverAlreadyActive(an, channel, pitch) == FALSE

\* is_already_active = any(n['pitch'] == pitch for n in active_notes[channel])
IsAlreadyActive(an, channel, pitch) ==
  \E i \in 1..Len(an[channel]) : an[channel][i] = pitch

\* mutant of RemovePitch: the note-off leaves the list as it was
KeepPitch(list, pitch) == list

\* [n for n in self.active_notes[channel] if n['pitch'] != pitch]
RemovePitch(list, pitch) == SelectSeq(list, LAMBDA n : n # pitch)

\* the pairs held in active_notes
ActivePairs(an) ==
  UNION {{<<c, an[c][i]>> : i \in 1..Len(an[c])} : c \in DOMAIN an}

\* ------------------------------------------------------------------------
\* EvolutionEngine.evolve
\* ------------------------------------------------------------------------

\* int(x) of a quotient a / b with b > 0: truncation toward zero
TruncDiv(a, b) == IF a >= 0 THEN a \div b ELSE -((-a) \div b)

\* "Bass (Kanal 0) = 48-72, andere = 36-96"
PitchRange(channel) ==
  IF channel = 0 THEN <<BassMinPitch, BassMaxPitch>>
  ELSE <<OtherMinPitch, OtherMaxPitch>>

\* random.choice([-2, -1, 1, 2])
PitchShifts == {-2, -1, 1, 2}

\* the draws of random.randint(-10, 10) followed in a run
VelocityShifts == {-10, 10}

\* the draws of random.randint(-20, 20) followed in a run
TimingShifts == {-20, 20}

\* the draws of random.uniform(0.8, 1.2) followed in a run, as percentages
DurationFactors == {80, 120}

\* random.choice(['pitch', 'velocity', 'timing', 'duration']) with its draw
MutationDraws ==
  [kind : {"pitch"}, arg : PitchShifts] \cup
  [kind : {"velocity"}, arg : VelocityShifts] \cup
  [kind : {"timing"}, arg : TimingShifts] \cup
  [kind : {"duration"}, arg : DurationFactors]

\* mutant of Mutate: the new value is assigned without its clamp
MutateUnclamped(note, channel, draw) ==
  CASE draw.kind = "pitch" -> [note EXCEPT !.pitch = @ + draw.arg]
    [] draw.kind = "velocity" -> [note EXCEPT !.velocity = @ + draw.arg]
    [] draw.kind = "timing" -> [note EXCEPT !.start = @ + draw.arg]
    [] draw.kind = "duration" ->
         [note EXCEPT !.duration = TruncDiv(@ * draw.arg, 100)]

\* mutant of Mutate: every mutation also moves the note to the loop start
MutateAlsoRestarts(note, channel, draw) ==
  [MutateUnclamped(note, channel, draw) EXCEPT !.start = 0]

\* the assignment evolve makes to one selected note
Mutate(note, channel, draw) ==
  CASE draw.kind = "pitch" ->
         [note EXCEPT !.pitch =
            Clamp(PitchRange(channel)[1], PitchRange(channel)[2], @ + draw.arg)]
    [] draw.kind = "velocity" ->
         [note EXCEPT !.velocity = Clamp(MinEvolvedVelocity, MaxVelocity, @ + draw.arg)]
    [] draw.kind = "timing" ->
         [note EXCEPT !.start = Max(0, @ + draw.arg)]
    [] draw.kind = "duration" ->
         [note EXCEPT !.duration = Max(MinDuration, TruncDiv(@ * draw.arg, 100))]

\* <<voice index, note index>> of every note of the Pattern
NoteIds(seqs) ==
  UNION {{<<k, i>> : i \in 1..Len(seqs[k].notes)} : k \in 1..Len(seqs)}

\* mutant of CanMutate: the intensity is left out of the test
CanMutateAtAnyIntensity(intensity) == evolution_rate > 0

\* random.random() < self.evolution_rate * intensity can come out true
CanMutate(intensity) == evolution_rate * intensity > 0

\* the Pattern after evolve mutated the notes in sel with the draws in draw
Evolved(seqs, sel, draw) ==
  [k \in 1..Len(seqs) |->
     [seqs[k] EXCEPT !.notes =
        [i \in 1..Len(seqs[k].notes) |->
           IF <<k, i>> \in sel
           THEN Mutate(seqs[k].notes[i], seqs[k].channel, draw[<<k, i>>])
           ELSE seqs[k].notes[i]]]]

\* the field a mutation kind assigns
FieldOf(kind) == IF kind = "timing" THEN "start" ELSE kind

\* EvolutionEngine.evolve(intensity): the notes in sel come out of
\* "random.random() < self.evolution_rate * intensity", each gets one draw
Evolve(intensity) ==
  \E sel \in SUBSET NoteIds(sequences) :
    /\ sel # {} => CanMutate(intensity)
    /\ mutations_count + Cardinality(sel) <= MaxMutations
    /\ \E draw \in [sel -> MutationDraws] :
         /\ sequences' = Evolved(sequences, sel, draw)
         /\ last_assigned' = {<<id[1], id[2], FieldOf(draw[id].kind)>> : id \in sel}
    /\ mutations_count' = mutations_count + Cardinality(sel)

\* mutant of GetCurrentIntensity: the curve is sampled at the end of the loop
GetIntensityAtLoopEnd(curve, tick, len) ==
  IF curve = << >> THEN DefaultIntensity ELSE curve[Len(curve)]

\* mutant of GetCurrentIntensity: the curve is walked by the loop count
GetIntensityByLoopCount(curve, tick, len) ==
  IF curve = << >> THEN DefaultIntensity
  ELSE curve[Min(loop_count, Len(curve) - 1) + 1]

\* "idx = int(progress * len(curve)); idx = min(idx, len(curve) - 1)", the
\* 0-based index get_current_intensity reads
SampledIndex(curve, tick, len) ==
  Min((tick * Len(curve)) \div len, Len(curve) - 1)

\* LiveSequencer.get_current_intensity
GetCurrentIntensity(curve, tick, len) ==
  IF curve = << >> THEN DefaultIntensity
  ELSE curve[SampledIndex(curve, tick, len) + 1]

\* mutant of BoundReached: ">" for ">="
BoundReachedLate(ml, lc) == ml > 0 /\ lc > ml

\* "if self.max_loops > 0 and loop_count >= self.max_loops"
BoundReached(ml, lc) == ml > 0 /\ lc >= ml

\* ------------------------------------------------------------------------
\* LiveSequencer.run
\* ------------------------------------------------------------------------

\* an exception inside the try block: "except Exception" prints, then finally
Raise(kind) ==
  /\ pc' = "finally"
  /\ exit_via' = "exception"
  /\ failed_send' = kind

LogEntry(src, channel, pitch, an) ==
  [src |-> src, channel |-> channel, pitch |-> pitch,
   active |-> (channel \in DOMAIN an /\ <<channel, pitch>> \in ActivePairs(an))]

\* mido's Message(...) accepts a data byte only in 0..127 and raises
\* ValueError otherwise; note_on and note_off pass the pitch as it is
ValidDataByte(x) == x \in 0..127

\* a ValueError inside the try block: no send failed, "except Exception"
ValueError ==
  /\ pc' = "finally"
  /\ exit_via' = "exception"
  /\ UNCHANGED failed_send

\* "a sorts before b" in the order all_notes_off walks channels and notes
PanicBefore(a, b) == a[1] < b[1] \/ (a[1] = b[1] /\ a[2] < b[2])

\* the sends at which an all_notes_off over pairs can raise with a distinct
\* result: the velocity-0 note-on of a pair, or a send after the last pair
PanicCuts(pairs) == pairs \cup {<<16, 0>>}

\* the pairs all_notes_off has not silenced when the send for cut raises
StillSounding(pairs, cut) == {pair \in pairs : ~PanicBefore(pair, cut)}

NotesClearedByPanic(notes) == [c \in DOMAIN notes |-> << >>]

\* active_notes over an all_notes_off(port): the function is handed the port
\* and nothing else, and assigns nothing of the sequencer
NotesAfterPanic(notes) == notes

\* signal_handler: clears the flag, then all_notes_off(midi_out), which
\* sends a velocity-0 note-on for every note of every channel and touches no
\* state of the sequencer; the handler runs in the main thread, so a send
\* that raises in it raises at the position the main thread is at
SignalHandler ==
  /\ pc \notin {"returned", "raised"}
  /\ running
  /\ running' = FALSE
  /\ \E ok \in BOOLEAN :
       IF ok
       THEN /\ sounding' = {}
            /\ UNCHANGED <<pc, exit_via, failed_send>>
       ELSE /\ \E cut \in PanicCuts(sounding) :
                 sounding' = StillSounding(sounding, cut)
            /\ IF pc \in {"start", "finally"}
               THEN pc' = "raised" /\ UNCHANGED <<exit_via, failed_send>>
               ELSE Raise("panic")
  /\ active_notes' = NotesAfterPanic(active_notes)
  /\ UNCHANGED <<v1_vars, edit_calls, late_ticks, sequences, plan_vars, current_tick,
                 loop_count, mutations_count, queue_vars, tick_log,
                 ons_this_loop, ever_on, boundary_hist, exit_hist>>

\* "self.port.send(Message('start'))", before the try block
RunStart ==
  /\ pc = "start"
  /\ \E ok \in BOOLEAN : pc' = IF ok THEN "while" ELSE "raised"
  /\ UNCHANGED <<v1_vars, edit_calls, late_ticks, running, sequences, plan_vars, current_tick, loop_count,
                 active_notes, mutations_count, queue_vars, exit_via, tick_log,
                 ons_this_loop, ever_on, sounding, boundary_hist, failed_send, exit_hist>>

\* "while running:"
WhileCheck ==
  /\ pc = "while"
  /\ IF running
     THEN pc' = "body" /\ UNCHANGED exit_via
     ELSE pc' = "finally" /\ exit_via' = "shutdown"
  /\ UNCHANGED <<v1_vars, edit_calls, late_ticks, running, sequences, plan_vars, current_tick, loop_count,
                 active_notes, mutations_count, queue_vars, tick_log,
                 ons_this_loop, ever_on, sounding, boundary_hist, failed_send, exit_hist>>

\* the clock pulse of an iteration in which it is due
ClockPulse ==
  /\ pc = "body"
  /\ \E ok \in BOOLEAN :
       IF ok THEN UNCHANGED <<pc, exit_via, failed_send>> ELSE Raise("clock")
  /\ UNCHANGED <<v1_vars, edit_calls, late_ticks, running, sequences, plan_vars, current_tick, loop_count,
                 active_notes, mutations_count, queue_vars, tick_log,
                 ons_this_loop, ever_on, sounding, boundary_hist, exit_hist>>

\* an iteration in which the tick is not due: time.sleep(0.0001), next pass
IdleIteration ==
  /\ pc = "body"
  /\ pc' = "while"
  /\ UNCHANGED <<v1_vars, edit_calls, late_ticks, running, sequences, plan_vars, current_tick, loop_count,
                 active_notes, mutations_count, queue_vars, exit_via, tick_log,
                 ons_this_loop, ever_on, sounding, boundary_hist, failed_send, exit_hist>>

\* _process_notes up to the first send: the events of position pos
Collect(seqs, pos) ==
  LET offs == CollectOffs(seqs, 1, loop_length, pos)
      ons == CollectOns(seqs, 1, pos)
  IN  /\ note_offs' = offs
      /\ note_ons' = ons
      /\ tick_log' = << >>
      /\ pc' = DispatchPhase(offs, ons)

\* "self.current_tick += 1", then the boundary or _process_notes
TickUpdate ==
  /\ pc = "body"
  /\ loop_count < MaxLoopCount
  /\ current_tick' = current_tick + 1
  /\ late_ticks' = IF running THEN late_ticks ELSE late_ticks + 1
  /\ IF current_tick' >= loop_length
     THEN /\ pc' = "flush"
          /\ pre_flush' = ActivePairs(active_notes)
          /\ flush_log' = << >>
          /\ UNCHANGED <<queue_vars, tick_log>>
     ELSE /\ Collect(sequences, current_tick' % loop_length)
          /\ UNCHANGED <<pre_flush, flush_log>>
  /\ UNCHANGED <<v1_vars, edit_calls, running, sequences, plan_vars, loop_count, active_notes,
                 mutations_count, exit_via, ons_this_loop, ever_on, sounding,
                 flush_count, evolve_calls, last_intensity, last_assigned,
                 failed_send, exit_hist>>

RECURSIVE FlushTargets(_, _)
\* the note-offs the boundary flush sends, channel by channel from the k-th
FlushTargets(an, k) ==
  IF k > Len(FlushChannels) THEN << >>
  ELSE [i \in 1..Len(an[FlushChannels[k]]) |->
          <<FlushChannels[k], an[FlushChannels[k]][i]>>]
       \o FlushTargets(an, k + 1)

\* position of channel c in the flush order
FlushIndex(c) == CHOOSE k \in 1..Len(FlushChannels) : FlushChannels[k] = c

\* active_notes once _all_notes_off_for_channel completed for the channels
\* before position k of the flush order
ClearedBefore(an, k) ==
  [c \in DOMAIN an |->
     IF \E j \in 1..(k - 1) : FlushChannels[j] = c THEN << >> ELSE an[c]]

\* "for channel in range(4): self._all_notes_off_for_channel(channel)";
\* sent is the number of note-offs that go out before a send raises
BoundaryFlush ==
  /\ pc = "flush"
  /\ LET targets == FlushTargets(active_notes, 1)
     IN  \E sent \in 0..Len(targets) :
           /\ flush_log' = SubSeq(targets, 1, sent)
           /\ sounding' = sounding \ {targets[i] : i \in 1..sent}
           /\ IF sent = Len(targets)
              THEN /\ active_notes' =
                        ClearedBefore(active_notes, Len(FlushChannels) + 1)
                   /\ flush_count' = flush_count + 1
                   /\ pc' = "count"
                   /\ UNCHANGED <<exit_via, failed_send>>
              ELSE /\ active_notes' =
                        ClearedBefore(active_notes,
                                      FlushIndex(targets[sent + 1][1]))
                   /\ Raise("flush")
                   /\ UNCHANGED flush_count
  /\ UNCHANGED <<v1_vars, edit_calls, late_ticks, running, sequences, plan_vars, current_tick, loop_count,
                 mutations_count, queue_vars, tick_log, ons_this_loop, ever_on,
                 pre_flush, evolve_calls, last_intensity, last_assigned,
                 exit_hist>>

\* "loop_count += 1", the bound check, "self.current_tick = 0"
BoundaryCount ==
  /\ pc = "count"
  /\ loop_count' = loop_count + 1
  /\ IF BoundReached(max_loops, loop_count')
     THEN /\ running' = FALSE
          /\ pc' = "finally"
          /\ exit_via' = "bound"
          /\ UNCHANGED <<current_tick, ons_this_loop>>
     ELSE /\ current_tick' = 0
          /\ ons_this_loop' = {}
          /\ pc' = "evolve"
          /\ UNCHANGED <<running, exit_via>>
  /\ UNCHANGED <<v1_vars, edit_calls, late_ticks, sequences, plan_vars, active_notes, mutations_count,
                 queue_vars, tick_log, ever_on, sounding, boundary_hist, failed_send,
                 exit_hist>>

\* "intensity = self.get_current_intensity(); self.evolution.evolve(intensity)"
BoundaryEvolve ==
  /\ pc = "evolve"
  /\ LET intensity == GetCurrentIntensity(intensity_curve, current_tick, loop_length)
     IN  /\ last_intensity' = intensity
         /\ Evolve(intensity)
  /\ evolve_calls' = evolve_calls + 1
  /\ pc' = "process"
  /\ UNCHANGED <<v1_vars, edit_calls, late_ticks, running, plan_vars, current_tick, loop_count, active_notes,
                 queue_vars, exit_via, tick_log, ons_this_loop, ever_on, sounding,
                 pre_flush, flush_log, flush_count, failed_send, exit_hist>>

\* the _process_notes call that follows a boundary
ProcessAfterBoundary ==
  /\ pc = "process"
  /\ Collect(sequences, current_tick % loop_length)
  /\ UNCHANGED <<v1_vars, edit_calls, late_ticks, running, sequences, plan_vars, current_tick, loop_count,
                 active_notes, mutations_count, exit_via, ons_this_loop,
                 ever_on, sounding, boundary_hist, failed_send, exit_hist>>

\* ------------------------------------------------------------------------
\* _process_notes: dispatch, and note_on / note_off / note_retrigger
\* ------------------------------------------------------------------------

\* "for channel, pitch in note_offs: self.note_off(channel, pitch)", one note
DispatchNoteOff ==
  /\ pc = "offs"
  /\ LET channel == Head(note_offs)[1]
         pitch == Head(note_offs)[2]
     IN  \E ok \in BOOLEAN :
           IF ~ValidDataByte(pitch)
           THEN /\ ValueError
                /\ UNCHANGED <<active_notes, queue_vars, tick_log, sounding>>
           ELSE IF ~ok
           THEN /\ Raise("note_off")
                /\ UNCHANGED <<active_notes, queue_vars, tick_log, sounding>>
           ELSE /\ tick_log' =
                     Append(tick_log, LogEntry("off", channel, pitch, active_notes))
                /\ sounding' = sounding \ {<<channel, pitch>>}
                /\ IF channel \in DOMAIN active_notes
                   THEN /\ active_notes' =
                             [active_notes EXCEPT ![channel] = RemovePitch(@, pitch)]
                        /\ note_offs' = Tail(note_offs)
                        /\ pc' = DispatchPhase(Tail(note_offs), note_ons)
                        /\ UNCHANGED <<note_ons, exit_via, failed_send>>
                   ELSE \* KeyError on self.active_notes[channel]
                        /\ pc' = "finally"
                        /\ exit_via' = "exception"
                        /\ UNCHANGED <<active_notes, queue_vars, failed_send>>
  /\ UNCHANGED <<v1_vars, edit_calls, late_ticks, running, sequences, plan_vars, current_tick, loop_count,
                 mutations_count, ons_this_loop, ever_on, boundary_hist,
                 exit_hist>>

\* a note-on of the tick whose channel has no list in active_notes: the
\* is_already_active test raises KeyError before anything is sent
DispatchUntracked ==
  /\ pc = "ons"
  /\ Head(note_ons)[1] \notin DOMAIN active_notes
  /\ pc' = "finally"
  /\ exit_via' = "exception"
  /\ UNCHANGED <<v1_vars, edit_calls, late_ticks, running, sequences, plan_vars, current_tick, loop_count,
                 active_notes, mutations_count, queue_vars, tick_log,
                 ons_this_loop, ever_on, sounding, boundary_hist, failed_send, exit_hist>>

\* the port sends a note_on and the pair is appended to active_notes
SendNoteOn(src, channel, pitch) ==
  /\ tick_log' =
       Append(tick_log,
              LogEntry(src, channel, pitch, active_notes)
                @@ [velocity |-> Head(note_ons)[3], stopping |-> ~running])
  /\ active_notes' = [active_notes EXCEPT ![channel] = Append(@, pitch)]
  /\ ever_on' = ever_on \cup {<<channel, pitch>>}
  /\ sounding' = sounding \cup {<<channel, pitch>>}
  /\ ons_this_loop' = ons_this_loop \cup {<<channel, pitch, current_tick>>}
  /\ note_ons' = Tail(note_ons)
  /\ pc' = DispatchPhase(note_offs, Tail(note_ons))
  /\ UNCHANGED <<note_offs, exit_via, failed_send>>

\* "else: self.note_on(channel, pitch, velocity)"
DispatchNoteOn ==
  /\ pc = "ons"
  /\ Head(note_ons)[1] \in DOMAIN active_notes
  /\ ~IsAlreadyActive(active_notes, Head(note_ons)[1], Head(note_ons)[2])
  /\ \E ok \in BOOLEAN :
       IF ~ValidDataByte(Head(note_ons)[2])
       THEN /\ ValueError
            /\ UNCHANGED <<active_notes, queue_vars, tick_log, ever_on, sounding,
                           ons_this_loop>>
       ELSE IF ok
       THEN SendNoteOn("on", Head(note_ons)[1], Head(note_ons)[2])
       ELSE /\ Raise("note_on")
            /\ UNCHANGED <<active_notes, queue_vars, tick_log, ever_on, sounding,
                           ons_this_loop>>
  /\ UNCHANGED <<v1_vars, edit_calls, late_ticks, running, sequences, plan_vars, current_tick, loop_count,
                 mutations_count, boundary_hist, exit_hist>>

\* note_retrigger, first half: note_off, removal from active_notes
RetriggerOff ==
  /\ pc = "ons"
  /\ Head(note_ons)[1] \in DOMAIN active_notes
  /\ IsAlreadyActive(active_notes, Head(note_ons)[1], Head(note_ons)[2])
  /\ LET channel == Head(note_ons)[1]
         pitch == Head(note_ons)[2]
     IN  \E ok \in BOOLEAN :
           IF ok
           THEN /\ tick_log' =
                     Append(tick_log,
                            LogEntry("rt_off", channel, pitch, active_notes)
                              @@ [stopping |-> ~running])
                /\ active_notes' =
                     [active_notes EXCEPT ![channel] = RemovePitch(@, pitch)]
                /\ sounding' = sounding \ {<<channel, pitch>>}
                /\ pc' = "gap"
                /\ UNCHANGED <<exit_via, failed_send>>
           ELSE /\ Raise("note_off")
                /\ UNCHANGED <<active_notes, tick_log, sounding>>
  /\ UNCHANGED <<v1_vars, edit_calls, late_ticks, running, sequences, plan_vars, current_tick, loop_count,
                 mutations_count, queue_vars, ons_this_loop, ever_on,
                 boundary_hist, exit_hist>>

\* note_retrigger, second half, after time.sleep(0.004): note_on, append
RetriggerOn ==
  /\ pc = "gap"
  /\ \E ok \in BOOLEAN :
       IF ok
       THEN SendNoteOn("rt_on", Head(note_ons)[1], Head(note_ons)[2])
       ELSE /\ Raise("note_on")
            /\ UNCHANGED <<active_notes, queue_vars, tick_log, ever_on, sounding,
                           ons_this_loop>>
  /\ UNCHANGED <<v1_vars, edit_calls, late_ticks, running, sequences, plan_vars, current_tick, loop_count,
                 mutations_count, boundary_hist, exit_hist>>

\* the finally block of run: 'stop', then all_notes_off(self.port); a send
\* that raises here leaves run by the exception
RunFinally ==
  /\ pc = "finally"
  /\ \E outcome \in {"ok", "stop_raises", "panic_raises"} :
       /\ stop_sent' = (outcome # "stop_raises")
       /\ panic_cover' =
            IF outcome = "ok"
            THEN [channels |-> PanicChannels, notes |-> PanicNotes]
            ELSE NoCover
       /\ IF outcome = "panic_raises"
          THEN \E cut \in PanicCuts(sounding) :
                 sounding' = StillSounding(sounding, cut)
          ELSE sounding' = IF outcome = "ok" THEN {} ELSE sounding
       /\ pc' = IF outcome = "ok" THEN "returned" ELSE "raised"
  /\ active_notes' = NotesAfterPanic(active_notes)
  /\ UNCHANGED <<v1_vars, edit_calls, late_ticks, running, sequences, plan_vars, current_tick, loop_count,
                 mutations_count, queue_vars, exit_via, tick_log,
                 ons_this_loop, ever_on, boundary_hist, failed_send>>

\* later runs in the process that are followed
MaxRuns == 1

\* a new LiveSequencer is constructed on the same sequences and plan and its
\* run is called, after an earlier run has ended; flag is what the module
\* global running is at that point
NextRun(flag) ==
  /\ pc \in {"returned", "raised"}
  /\ runs < MaxRuns
  /\ runs' = runs + 1
  /\ prior' = [exit_via |-> exit_via, running |-> running]
  /\ running' = flag
  /\ current_tick' = 0
  /\ loop_count' = 0
  /\ active_notes' = [c \in TrackedChannels |-> << >>]
  /\ mutations_count' = 0
  /\ pc' = "start"
  /\ note_offs' = << >>
  /\ note_ons' = << >>
  /\ exit_via' = "none"
  /\ tick_log' = << >>
  /\ ons_this_loop' = {}
  /\ ever_on' = {}
  /\ sounding' = {}
  /\ late_ticks' = 0
  /\ pre_flush' = {}
  /\ flush_log' = << >>
  /\ flush_count' = 0
  /\ evolve_calls' = 0
  /\ last_intensity' = -1
  /\ last_assigned' = {}
  /\ failed_send' = "none"
  /\ stop_sent' = FALSE
  /\ panic_cover' = NoCover
  /\ UNCHANGED <<sequences, plan_vars, edit_calls, shutdown_event, patt, v1_pc,
                 v1_step, v1_lane, v1_ev, note_tracker, v1_log, panic_vars,
                 clock_vars, port_vars, lane_vars, live_vars, main_vars>>

\* mutant of RunAgain: run sets the flag again when it starts
RunAgainResetsFlag == NextRun(TRUE)

\* nothing between two runs assigns running: "running = True" is executed
\* once, when the module is loaded
RunAgain == NextRun(running)

\* ------------------------------------------------------------------------
\* EvolutionEngine on its own: evolve, add_note, remove_note
\* ------------------------------------------------------------------------

\* operations of the engine followed from one initial Pattern
MaxEngineCalls == 2

\* a bass voice (channel 0) of exactly 4 notes, with values at and beyond
\* the limits evolve clamps to
EngineBass ==
  << Voice(0, << Note(48, 35, 10, 70), Note(72, 120, 0, 480),
                 Note(100, 100, 240, 60), Note(60, 64, 470, 100) >>) >>

\* a voice on another channel, with 5 notes
EngineLead ==
  << Voice(2, << Note(36, 30, 0, 60), Note(96, 127, 15, 75),
                 Note(20, 100, 240, 120), Note(97, 64, 360, 61),
                 Note(60, 90, 400, 240) >>) >>

EngineInputs ==
  { Input(1, 1, << >>, EngineBass), Input(1, 1, << >>, EngineLead) }

\* the intensities the engine is called with, as percentages
EngineIntensities == {0, 50, 100}

\* the draws of random.choice([-7, -5, -3, 3, 5, 7]) followed
AddIntervals == {-7, 7}

\* the draws of random.randint(0, 1920) followed
AddOffsets == {0, 1920}

\* "0.02 * intensity", in 1/10000
AddChance(intensity) == 2 * intensity

\* "0.01 * (1 - intensity)", in 1/10000
RemoveChance(intensity) == 1 * (100 - intensity)

\* mutant of KeepsMinimum: ">=" for ">"
KeepsMinimumOffByOne(notes) == Len(notes) >= 4

\* "len(seq.notes) > 4": "Mindestens 4 Noten behalten"
KeepsMinimum(notes) == Len(notes) > 4

\* seq.notes.pop(idx), idx counted from 1
PopNote(notes, idx) ==
  [j \in 1..(Len(notes) - 1) |-> IF j < idx THEN notes[j] ELSE notes[j + 1]]

\* the note add_note appends: a clone of reference, transposed and moved
ClonedNote(reference, channel, step, offset) ==
  [pitch |-> Clamp(PitchRange(channel)[1], PitchRange(channel)[2],
                   reference.pitch + step),
   velocity |-> reference.velocity,
   start |-> reference.start + offset,
   duration |-> reference.duration]

EngineCalls == evolve_calls + add_calls + remove_calls

EngineFrame ==
  UNCHANGED <<v1_vars, late_ticks, running, plan_vars, current_tick, loop_count, active_notes,
              pc, queue_vars, exit_via, tick_log, ons_this_loop, ever_on, sounding,
              pre_flush, flush_log, flush_count, failed_send, exit_hist>>

\* a call of evolve(intensity)
EvolveCall ==
  /\ pc = "engine"
  /\ EngineCalls < MaxEngineCalls
  /\ \E intensity \in EngineIntensities :
       /\ last_intensity' = intensity
       /\ Evolve(intensity)
  /\ evolve_calls' = evolve_calls + 1
  /\ UNCHANGED edit_calls
  /\ EngineFrame

\* a call of add_note(channel_name, base_pitch, intensity); k is the voice
\* channel_name names, Len(sequences) + 1 when it names none
AddNoteCall ==
  /\ pc = "engine"
  /\ EngineCalls < MaxEngineCalls
  /\ \E intensity \in EngineIntensities, k \in 1..(Len(sequences) + 1),
        hit \in BOOLEAN :
       IF hit /\ AddChance(intensity) > 0 /\ k <= Len(sequences)
             /\ sequences[k].notes # << >>
       THEN \E r \in 1..Len(sequences[k].notes),
               step \in AddIntervals, offset \in AddOffsets :
              sequences' =
                [sequences EXCEPT ![k].notes =
                   Append(@, ClonedNote(sequences[k].notes[r],
                                        sequences[k].channel, step, offset))]
       ELSE UNCHANGED sequences
  /\ add_calls' = add_calls + 1
  /\ last_assigned' = {}
  /\ UNCHANGED <<remove_calls, evolve_calls, last_intensity, mutations_count>>
  /\ EngineFrame

\* a call of remove_note(channel_name, intensity)
RemoveNoteCall ==
  /\ pc = "engine"
  /\ EngineCalls < MaxEngineCalls
  /\ \E intensity \in EngineIntensities, k \in 1..(Len(sequences) + 1),
        hit \in BOOLEAN :
       IF hit /\ RemoveChance(intensity) > 0 /\ k <= Len(sequences)
             /\ KeepsMinimum(sequences[k].notes)
       THEN \E idx \in 1..Len(sequences[k].notes) :
              sequences' =
                [sequences EXCEPT ![k].notes = PopNote(@, idx)]
       ELSE UNCHANGED sequences
  /\ remove_calls' = remove_calls + 1
  /\ last_assigned' = {}
  /\ UNCHANGED <<add_calls, evolve_calls, last_intensity, mutations_count>>
  /\ EngineFrame

\* ------------------------------------------------------------------------
\* v1: play_pattern and the NoteTracker (src/ai-sequencer.py)
\* ------------------------------------------------------------------------

\* validate_config keeps steps_per_bar >= 4 and bars >= 1
steps_per_bar == 4

bars == 1

total_steps == steps_per_bar * bars

\* "for name in ("melody", "bass", "lead")"
LaneOrder == <<"melody", "bass", "lead">>

\* ch_map with main's channel assignment: bass 1, melody 2, lead 3
ChannelOf(name) ==
  CASE name = "melody" -> 1
    [] name = "bass" -> 0
    [] name = "lead" -> 2

Ev(step, note, vel, len) == [step |-> step, note |-> note, vel |-> vel, len |-> len]

\* events sorted by step, as build_lane returns them; a lane may be empty and
\* two events may share a step (a ghost note)
V1PatternA ==
  [melody |-> << Ev(0, 60, 96, 1), Ev(2, 62, 90, 1) >>,
   bass |-> << Ev(0, 36, 100, 2) >>,
   lead |-> << >>]

V1PatternB ==
  [melody |-> << Ev(1, 64, 96, 1) >>,
   bass |-> << >>,
   lead |-> << Ev(1, 64, 50, 1), Ev(1, 67, 90, 2), Ev(3, 67, 90, 1) >>]

V1Patterns == {V1PatternA, V1PatternB}

\* schedules[name][s]: "s = ev["step"] % total_steps"
Schedule(pattern, name, s) ==
  SelectSeq(pattern[name], LAMBDA ev : ev.step % total_steps = s)

\* the event play_pattern is at
CurrentSchedule == Schedule(patt, LaneOrder[v1_lane], v1_step)

V1Entry(kind, ok) ==
  [kind |-> kind, step |-> v1_step, lane |-> v1_lane, ev |-> v1_ev, ok |-> ok]

\* NoteTracker.note_on
TrackerNoteOn(tracker, channel, note) == tracker \cup {<<channel, note>>}

\* mutant of TrackerNoteOff: the pair stays tracked
TrackerNoteOffKeeps(tracker, channel, note) == tracker

\* mutant of TrackerNoteOff: the note is discarded from the next channel's set
TrackerNoteOffNextChannel(tracker, channel, note) ==
  tracker \ {<<channel + 1, note>>}

\* NoteTracker.note_off
TrackerNoteOff(tracker, channel, note) == tracker \ {<<channel, note>>}

\* mutant of CatchSendError: the exception leaves play_pattern
SendErrorEscapes(next) == "raised"

\* "except Exception as e: print(...)": the position after a send raised
\* inside the try block, next being the next event of the lane
CatchSendError(next) == next

\* play_pattern has not been called
PlaybackIdle ==
  /\ shutdown_event = FALSE
  /\ patt = V1PatternA
  /\ v1_pc = "idle"
  /\ v1_step = 0
  /\ v1_lane = 1
  /\ v1_ev = 1
  /\ note_tracker = {}
  /\ v1_log = << >>

\* all_notes_off has not been called
PanicIdle ==
  /\ panic_calls = 0
  /\ panic_ch = 1
  /\ panic_log = << >>

\* the call of play_pattern, the tracker and the shutdown event as the module
\* creates them
PlaybackInit ==
  /\ shutdown_event = FALSE
  /\ patt \in V1Patterns
  /\ v1_pc = "step"
  /\ v1_step = 0
  /\ v1_lane = 1
  /\ v1_ev = 1
  /\ note_tracker = {}
  /\ v1_log = << >>

\* v1's signal_handler: _shutdown_event.set()
V1SignalHandler ==
  /\ v1_pc \notin {"idle", "ret_true", "ret_false", "raised"}
  /\ ~shutdown_event
  /\ shutdown_event' = TRUE
  /\ UNCHANGED <<v2_vars, panic_vars, clock_vars, patt, unit_vars, v1_pc, v1_step, v1_lane, v1_ev, note_tracker, v1_log>>

\* "for s in range(total_steps): if _shutdown_event.is_set(): return False",
\* and "return True" after the last step
StepCheck ==
  /\ v1_pc = "step"
  /\ IF v1_step >= total_steps THEN v1_pc' = "ret_true"
     ELSE IF shutdown_event THEN v1_pc' = "ret_false"
     ELSE v1_pc' = "lane"
  /\ v1_lane' = 1
  /\ UNCHANGED <<v2_vars, panic_vars, clock_vars, shutdown_event, patt, unit_vars, v1_step, v1_ev, note_tracker, v1_log>>

\* "for name in (...): if _shutdown_event.is_set(): return False"
LaneCheck ==
  /\ v1_pc = "lane"
  /\ IF v1_lane > Len(LaneOrder) THEN v1_pc' = "rem"
     ELSE IF shutdown_event THEN v1_pc' = "ret_false"
     ELSE v1_pc' = "event"
  /\ v1_ev' = 1
  /\ UNCHANGED <<v2_vars, panic_vars, clock_vars, shutdown_event, patt, unit_vars, v1_step, v1_lane, note_tracker, v1_log>>

\* "for ev in schedules[name][s]" up to the try block: the wait before the
\* note, when there is one, is an interruptible_sleep
EventStart ==
  /\ v1_pc = "event"
  /\ IF v1_ev > Len(CurrentSchedule)
     THEN /\ v1_pc' = "lane"
          /\ v1_lane' = v1_lane + 1
     ELSE /\ \E waits \in BOOLEAN :
               v1_pc' = IF waits /\ shutdown_event THEN "ret_false" ELSE "on"
          /\ UNCHANGED v1_lane
  /\ UNCHANGED <<v2_vars, panic_vars, clock_vars, shutdown_event, patt, unit_vars, v1_step, v1_ev, note_tracker, v1_log>>

\* "port.send(Message('note_on', ...)); _note_tracker.note_on(channel, note)"
SendOn ==
  /\ v1_pc = "on"
  /\ \E ok \in BOOLEAN :
       /\ v1_log' = Append(v1_log, V1Entry("note_on", ok))
       /\ IF ok
          THEN /\ note_tracker' =
                    TrackerNoteOn(note_tracker, ChannelOf(LaneOrder[v1_lane]),
                                  CurrentSchedule[v1_ev].note)
               /\ v1_pc' = "gate"
               /\ UNCHANGED v1_ev
          ELSE /\ v1_pc' = CatchSendError("event")
               /\ v1_ev' = v1_ev + 1
               /\ UNCHANGED note_tracker
  /\ UNCHANGED <<v2_vars, panic_vars, clock_vars, shutdown_event, patt, unit_vars, v1_step, v1_lane>>

\* "if not interruptible_sleep(gate_time)": gate_time >= MIN_GATE_TIME > 0
GateSleep ==
  /\ v1_pc = "gate"
  /\ v1_pc' = IF shutdown_event THEN "off_interrupted" ELSE "off"
  /\ UNCHANGED <<v2_vars, panic_vars, clock_vars, shutdown_event, patt, unit_vars, v1_step, v1_lane, v1_ev,
                 note_tracker, v1_log>>

\* the note_off of an event: after the gate, or "before returning on
\* shutdown"
SendOff ==
  /\ v1_pc \in {"off", "off_interrupted"}
  /\ \E ok \in BOOLEAN :
       /\ v1_log' = Append(v1_log, V1Entry("note_off", ok))
       /\ IF ok
          THEN /\ note_tracker' =
                    TrackerNoteOff(note_tracker, ChannelOf(LaneOrder[v1_lane]),
                                   CurrentSchedule[v1_ev].note)
               /\ IF v1_pc = "off_interrupted"
                  THEN v1_pc' = "ret_false" /\ UNCHANGED v1_ev
                  ELSE v1_pc' = "event" /\ v1_ev' = v1_ev + 1
          ELSE /\ v1_pc' = CatchSendError("event")
               /\ v1_ev' = v1_ev + 1
               /\ UNCHANGED note_tracker
  /\ UNCHANGED <<v2_vars, panic_vars, clock_vars, shutdown_event, patt, unit_vars, v1_step, v1_lane>>

\* the rest of the step: "if rem > 0: if not interruptible_sleep(rem)"
StepRemainder ==
  /\ v1_pc = "rem"
  /\ \E sleeps \in BOOLEAN :
       IF sleeps /\ shutdown_event
       THEN v1_pc' = "ret_false" /\ UNCHANGED v1_step
       ELSE v1_pc' = "step" /\ v1_step' = v1_step + 1
  /\ UNCHANGED <<v2_vars, panic_vars, clock_vars, shutdown_event, patt, unit_vars, v1_lane, v1_ev, note_tracker, v1_log>>

\* ------------------------------------------------------------------------
\* v1: all_notes_off (src/ai-sequencer.py)
\* ------------------------------------------------------------------------

\* calls of all_notes_off followed after play_pattern returned
MaxPanicCalls == 2

RECURSIVE SeqOf(_)
\* the elements of a finite set in the order an iteration visits them
SeqOf(S) ==
  IF S = {} THEN << >>
  ELSE LET x == CHOOSE y \in S : TRUE IN << x >> \o SeqOf(S \ {x})

\* "for ch in set(channels)" over the melody, bass and lead channels
UsedChannels == SeqOf({ChannelOf(LaneOrder[k]) : k \in 1..Len(LaneOrder)})

PanicEntry(kind, channel, data, ok) ==
  [kind |-> kind, channel |-> channel, data |-> data, ok |-> ok]

\* NoteTracker.get_all_active: the tracked (channel, note) pairs as a list
GetAllActive(tracker) == SeqOf(tracker)

\* where all_notes_off is called: on its own it is called after play_pattern
\* has returned; by main it is called once, in the finally block
PanicCallable ==
  IF main_pc = "none"
  THEN v1_pc \in {"ret_true", "ret_false", "panic_done"}
  ELSE main_pc = "panic" /\ panic_calls = 0 /\ v1_pc \notin {"panic_cc", "panic_reset"}

\* mutant of PassPanicError: the exception leaves all_notes_off
PanicErrorEscapes(next) == "raised"

\* "except Exception: pass" around the 'reset' send
PassPanicError(next) == next

\* the call, and "for channel, note in _note_tracker.get_all_active()": a
\* note_off per tracked pair, a send that raises is passed over; the
\* tracker itself is only read
PanicNoteOffs ==
  /\ PanicCallable
  /\ panic_calls < MaxPanicCalls
  /\ LET active == GetAllActive(note_tracker)
     IN  \E failed \in SUBSET note_tracker :
           panic_log' =
             [i \in 1..Len(active) |->
                PanicEntry("note_off", active[i][1], active[i][2],
                           active[i] \notin failed)]
  /\ panic_ch' = 1
  /\ v1_pc' = "panic_cc"
  /\ UNCHANGED <<v2_vars, clock_vars, shutdown_event, patt, unit_vars, v1_step, v1_lane, v1_ev,
                 note_tracker, v1_log, panic_calls>>

\* one channel of "for ch in set(channels)": CC 123 and CC 120 in one try
\* block, so CC 120 is not sent when CC 123 raises
PanicControllers ==
  /\ v1_pc = "panic_cc"
  /\ IF panic_ch > Len(UsedChannels)
     THEN /\ v1_pc' = "panic_reset"
          /\ UNCHANGED <<panic_ch, panic_log>>
     ELSE /\ \E outcome \in {"ok", "cc123_raises", "cc120_raises"} :
               panic_log' =
                 panic_log
                 \o << PanicEntry("control_change", UsedChannels[panic_ch], 123,
                                  outcome # "cc123_raises") >>
                 \o (IF outcome = "cc123_raises" THEN << >>
                     ELSE << PanicEntry("control_change", UsedChannels[panic_ch],
                                        120, outcome = "ok") >>)
          /\ panic_ch' = panic_ch + 1
          /\ UNCHANGED v1_pc
  /\ UNCHANGED <<v2_vars, clock_vars, shutdown_event, patt, unit_vars, v1_step, v1_lane, v1_ev,
                 note_tracker, v1_log, panic_calls>>

\* "port.send(Message('reset'))" in its own try block, then the return
PanicReset ==
  /\ v1_pc = "panic_reset"
  /\ \E ok \in BOOLEAN :
       /\ panic_log' = Append(panic_log, PanicEntry("reset", -1, -1, ok))
       /\ v1_pc' = IF ok THEN "panic_done" ELSE PassPanicError("panic_done")
  /\ panic_calls' = panic_calls + 1
  /\ UNCHANGED <<v2_vars, clock_vars, shutdown_event, patt, unit_vars, v1_step, v1_lane, v1_ev,
                 note_tracker, v1_log, panic_ch>>

\* ------------------------------------------------------------------------
\* v1: MidiClock (src/ai-sequencer.py)
\*
\* Time is counted in units of 50 ms.  It advances by itself (TimePasses);
\* a thread that is not taking a step is being delayed, a sleeping thread
\* wakes no earlier than its sleep ends.
\* ------------------------------------------------------------------------

\* the time up to which a clock session is followed
MaxTime == 23

\* the pulses of a clock session that are followed
MaxPulses == 3

\* "elif sleep_time < -0.1": 100 ms, in time units
ResyncLag == 2

\* "self.thread.join(timeout=1.0)": 1 s, in time units
JoinTimeout == 20

\* (60 / bpm) / PPQN for bpm = 50 and bpm = 25, in time units
Intervals == {1, 2}

ClockHist0 ==
  [pulses |-> 0, slept |-> FALSE, burst |-> FALSE, failed |-> FALSE,
   base |-> 0, since |-> 0, read |-> 0, resyncs |-> 0, timed_out |-> FALSE]

\* MidiClock.__init__: running = False, thread = None
ClockInit(enables) ==
  /\ clock_enable \in enables
  /\ clock_running = FALSE
  /\ clk_main = "idle"
  /\ clk_pc = "none"
  /\ interval \in Intervals
  /\ now = 0
  /\ next_tick = 0
  /\ sleep_time = 0
  /\ join_from = 0
  /\ clock_log = << >>
  /\ clock_hist = ClockHist0
  /\ clk_extra = 0
  /\ clk_calls = 0

ClockEntry(msg, ok) == [msg |-> msg, ok |-> ok]

\* what no step of the MidiClock changes
ClockCallFrame ==
  UNCHANGED <<v2_vars, panic_vars, shutdown_event, patt, unit_vars, v1_pc, v1_step,
              v1_lane, v1_ev, note_tracker, v1_log, clock_enable, interval>>

ClockFrame == ClockCallFrame /\ UNCHANGED <<clk_extra, clk_calls>>

\* time advances; it is followed while the clock thread is alive, the only
\* time anything reads it
TimePasses ==
  /\ clk_pc \notin {"none", "exited"}
  /\ now < MaxTime
  /\ now' = now + 1
  /\ UNCHANGED <<clock_running, clk_main, clk_pc, next_tick, sleep_time, join_from,
                 clock_log, clock_hist>>
  /\ ClockFrame

\* "if self.cfg.get("clock_enable", True) and not self.running"
StartGuard == clock_enable /\ ~clock_running

\* the body of MidiClock.start: the 'start' message in its try block, then
\* "self.thread = threading.Thread(...); self.thread.start()"; the thread of
\* an earlier start that is still alive is not ended by this, so the new
\* thread is then a further pulse thread
StartBody ==
  IF StartGuard
  THEN /\ clock_running' = TRUE
       /\ \E ok \in BOOLEAN :
            clock_log' = Append(clock_log, ClockEntry("start", ok))
       /\ IF clk_pc \in {"none", "exited"}
          THEN clk_pc' = "init" /\ UNCHANGED clk_extra
          ELSE clk_extra' = clk_extra + 1 /\ UNCHANGED clk_pc
  ELSE UNCHANGED <<clock_running, clock_log, clk_pc, clk_extra>>

\* MidiClock.start, the first call
ClockStart ==
  /\ clk_main = "idle"
  /\ StartBody
  /\ clk_main' = "started"
  /\ UNCHANGED <<now, next_tick, sleep_time, join_from, clock_hist, clk_calls>>
  /\ ClockCallFrame

\* further calls of start and stop that are followed
MaxClockCalls == 1

\* MidiClock.start called again: after a start, or after a stop has returned
ClockStartAgain ==
  /\ clk_main \in {"started", "stopped"}
  /\ clk_calls < MaxClockCalls
  /\ clk_calls' = clk_calls + 1
  /\ StartBody
  /\ clk_main' = "started"
  /\ UNCHANGED <<now, next_tick, sleep_time, join_from, clock_hist>>
  /\ ClockCallFrame

\* MidiClock.stop called before any start or after a stop has returned:
\* "if not self.running: return"
ClockStopAgain ==
  /\ clk_main \in {"idle", "stopped"}
  /\ clk_calls < MaxClockCalls
  /\ clk_calls' = clk_calls + 1
  /\ IF ~clock_running
     THEN UNCHANGED <<clock_running, clk_main, join_from>>
     ELSE /\ clock_running' = FALSE
          /\ clk_main' = "join"
          /\ join_from' = now
  /\ UNCHANGED <<clk_pc, now, next_tick, sleep_time, clock_log, clock_hist, clk_extra>>
  /\ ClockCallFrame

\* MidiClock.stop up to the join: "if not self.running: return",
\* "self.running = False"
ClockStop ==
  /\ clk_main = "started"
  /\ IF ~clock_running
     THEN /\ clk_main' = "stopped"
          /\ UNCHANGED <<clock_running, join_from>>
     ELSE /\ clock_running' = FALSE
          /\ clk_main' = "join"
          /\ join_from' = now
  /\ UNCHANGED <<clk_pc, now, next_tick, sleep_time, clock_log, clock_hist>>
  /\ ClockFrame

\* "self.thread.join(timeout=1.0)" returns: the thread has ended, or the
\* timeout has run out with the thread still alive
ClockJoin ==
  /\ clk_main = "join"
  /\ \/ /\ clk_pc = "exited"
        /\ UNCHANGED clock_hist
     \/ /\ clk_pc # "exited"
        /\ now >= join_from + JoinTimeout
        /\ clock_hist' = [clock_hist EXCEPT !.timed_out = TRUE]
  /\ clk_main' = "stop_send"
  /\ UNCHANGED <<clock_running, clk_pc, now, next_tick, sleep_time, join_from,
                 clock_log>>
  /\ ClockFrame

\* the 'stop' message in its try block, and the return of stop
ClockStopSend ==
  /\ clk_main = "stop_send"
  /\ \E ok \in BOOLEAN :
       clock_log' = Append(clock_log, ClockEntry("stop", ok))
  /\ clk_main' = "stopped"
  /\ UNCHANGED <<clock_running, clk_pc, now, next_tick, sleep_time, join_from,
                 clock_hist>>
  /\ ClockFrame

\* _run up to the loop: "next_tick = time.perf_counter()"
ClockThreadInit ==
  /\ clk_pc = "init"
  /\ next_tick' = now
  /\ clock_hist' = [clock_hist EXCEPT !.base = now, !.since = 0, !.read = now]
  /\ clk_pc' = "check"
  /\ UNCHANGED <<clock_running, clk_main, now, sleep_time, join_from, clock_log>>
  /\ ClockFrame

\* "while self.running:"
ClockCheck ==
  /\ clk_pc = "check"
  /\ clk_pc' = IF clock_running THEN "send" ELSE "exited"
  /\ UNCHANGED <<clock_running, clk_main, now, next_tick, sleep_time, join_from,
                 clock_log, clock_hist>>
  /\ ClockFrame

\* "self.port.send(Message('clock'))"; "except Exception: break"
ClockSend ==
  /\ clk_pc = "send"
  /\ clock_hist.pulses < MaxPulses
  /\ \E ok \in BOOLEAN :
       /\ clock_log' = Append(clock_log, ClockEntry("clock", ok))
       /\ clock_hist' =
            [clock_hist EXCEPT
               !.pulses = @ + 1,
               !.burst = @ \/ (clock_hist.pulses > 0 /\ ~clock_hist.slept),
               !.slept = FALSE,
               !.failed = ~ok]
       /\ clk_pc' = IF ok THEN "sched" ELSE "exited"
  /\ UNCHANGED <<clock_running, clk_main, now, next_tick, sleep_time, join_from>>
  /\ ClockFrame

\* mutant of ResyncDue: the clock is never resynchronised
ResyncNever(st) == FALSE

\* "elif sleep_time < -0.1"
ResyncDue(st) == st < -ResyncLag

\* "next_tick += interval; sleep_time = next_tick - time.perf_counter()" and
\* the branch on sleep_time
ClockSchedule ==
  /\ clk_pc = "sched"
  /\ next_tick' = next_tick + interval
  /\ sleep_time' = next_tick' - now
  /\ clock_hist' = [clock_hist EXCEPT !.since = @ + 1, !.read = now]
  /\ clk_pc' = IF sleep_time' > 0 THEN "sleep"
               ELSE IF ResyncDue(sleep_time') THEN "resync"
               ELSE "check"
  /\ UNCHANGED <<clock_running, clk_main, now, join_from, clock_log>>
  /\ ClockFrame

\* "time.sleep(sleep_time)" returns, no earlier than asked
ClockWake ==
  /\ clk_pc = "sleep"
  /\ now >= clock_hist.read + sleep_time
  /\ clock_hist' = [clock_hist EXCEPT !.slept = TRUE]
  /\ clk_pc' = "check"
  /\ UNCHANGED <<clock_running, clk_main, now, next_tick, sleep_time, join_from,
                 clock_log>>
  /\ ClockFrame

\* "next_tick = time.perf_counter()": "We're way behind (>100ms), reset"
ClockResync ==
  /\ clk_pc = "resync"
  /\ next_tick' = now
  /\ clock_hist' =
       [clock_hist EXCEPT !.base = now, !.since = 0, !.read = now,
                          !.resyncs = @ + 1]
  /\ clk_pc' = "check"
  /\ UNCHANGED <<clock_running, clk_main, now, sleep_time, join_from, clock_log>>
  /\ ClockFrame

\* ------------------------------------------------------------------------
\* Selection of the output port, and startup
\* ------------------------------------------------------------------------

\* devices enumerated at most
MaxDevices == 3

\* device names, as tuples of letters
DeviceNames == { <<"I", "A", "C">>, <<"a", "b">>, <<"B", "a">>, <<"c">> }

\* device hints: empty, matching in another case, matching several names,
\* matching one name, matching none
Hints ==
  { << >>, <<"i", "a", "c">>, <<"A">>, <<"b", "A">>, <<"b", "b">>, <<"C">> }

\* the lists mido.get_output_names() can return
DeviceLists == UNION {[1..n -> DeviceNames] : n \in 0..MaxDevices}

\* str.lower() of one letter
LowerChar(c) ==
  CASE c = "A" -> "a"
    [] c = "B" -> "b"
    [] c = "C" -> "c"
    [] c = "I" -> "i"
    [] OTHER -> c

\* mutant of Lower: the letters keep their case
KeepCase(str) == str

\* str.lower()
Lower(str) == [i \in 1..Len(str) |-> LowerChar(str[i])]

\* "needle in hay" of two strings
Contains(needle, hay) ==
  \E i \in 0..(Len(hay) - Len(needle)) :
    SubSeq(hay, i + 1, i + Len(needle)) = needle

NoMatch == [found |-> FALSE, name |-> << >>]

RECURSIVE FirstMatch(_, _)
\* "for n in names: if hint.lower() in n.lower(): ... break"
FirstMatch(names, hint) ==
  IF names = << >> THEN NoMatch
  ELSE IF Contains(Lower(hint), Lower(Head(names)))
       THEN [found |-> TRUE, name |-> Head(names)]
       ELSE FirstMatch(Tail(names), hint)

\* mido.open_output(target): the port, or the exception it raises
OpenOutput(target, opens, failure) ==
  IF opens THEN [outcome |-> "port", target |-> target]
  ELSE [outcome |-> failure, target |-> target]

\* v1 open_port(hint): RuntimeError for an empty list; an exception of
\* mido.open_output is not caught here
open_port(names, hint, opens) ==
  IF names = << >> THEN [outcome |-> "RuntimeError", target |-> << >>]
  ELSE LET m == FirstMatch(names, hint)
       IN  OpenOutput(IF m.found THEN m.name ELSE names[1], opens, "open_error")

\* v2 open_midi_output(device_hint): None for an empty list and when
\* mido.open_output raises
open_midi_output(names, hint, opens) ==
  IF names = << >> THEN [outcome |-> "None", target |-> << >>]
  ELSE LET m == FirstMatch(names, hint)
           best_match == IF m.found /\ m.name # << >> THEN m.name ELSE names[1]
       IN  OpenOutput(best_match, opens, "None")

\* midi_panic(device_hint) up to the opening of the port: returns for an
\* empty list, looks for a match only if the hint is not empty, and prints
\* the exception of mido.open_output
midi_panic(names, hint, opens) ==
  IF names = << >> THEN [outcome |-> "returned", target |-> << >>]
  ELSE LET m == IF hint # << >> THEN FirstMatch(names, hint) ELSE NoMatch
           target == IF m.found /\ m.name # << >> THEN m.name ELSE names[1]
       IN  OpenOutput(target, opens, "returned")

\* CONFIG["device"] in main: args.device, else the answer typed in, else "IAC"
MainHint(hint) == IF hint = << >> THEN <<"I", "A", "C">> ELSE hint

\* mutant of PortObtained: the port is not tested
PortAssumed(ret) == TRUE

\* "if not port: ... return" of play_live
PortObtained(ret) == ret.outcome = "port"

NotCalled == [outcome |-> "not_called", target |-> << >>]

NoStartup ==
  [status |-> "none", clock_created |-> FALSE, sequencer_constructed |-> FALSE,
   sent |-> << >>]

\* startup ended with status before anything was created or sent
Aborted(status) == [NoStartup EXCEPT !.status = status]

\* no port has been selected
PortIdle ==
  /\ device_names = << >>
  /\ device_hint = << >>
  /\ port_call = "none"
  /\ port_ret = NotCalled
  /\ startup = NoStartup

\* the devices present and the hint given, before a port is selected
PortInit ==
  /\ device_names \in DeviceLists
  /\ device_hint \in Hints
  /\ port_call = "none"
  /\ port_ret = NotCalled
  /\ startup = NoStartup

\* play_live has not been called: the module-level "midi_out = None"
LiveIdle ==
  /\ midi_out = "None"
  /\ port_open = FALSE
  /\ live_pc = "none"
  /\ closed_sends = 0
  /\ live_signals = 0

\* no run of LiveSequencer has ended in the process
RerunIdle ==
  /\ runs = 0
  /\ prior = [exit_via |-> "none", running |-> TRUE]

NoLaneCalls == [name \in {"melody", "bass", "lead"} |-> 0]

\* main has not reached its playback loop
MainIdle ==
  /\ main_pc = "none"
  /\ bars_passed = 0
  /\ lane_gen = NoLaneCalls
  /\ evolve_every = NoLaneCalls
  /\ built_from = NoLaneCalls
  /\ cycles = 0
  /\ cleanup_log = << >>

ProcessIdle == LiveIdle /\ RerunIdle /\ MainIdle

\* no LaneState has been created
LaneIdle ==
  /\ motif = << >>
  /\ register = 0
  /\ rotation = 0
  /\ max_reg = 1
  /\ lane_calls = 0
  /\ lane_prev_len = 0

\* what no step of the port selection and of play_live changes
LiveFrame ==
  UNCHANGED <<v2_vars, shutdown_event, patt, v1_pc, v1_step, v1_lane, v1_ev,
              note_tracker, v1_log, panic_vars, clock_vars, lane_vars,
              rerun_vars, main_vars, device_names, device_hint>>

PortFrame == LiveFrame /\ UNCHANGED live_vars

\* a call of open_port(hint)
OpenPortCall ==
  /\ port_call = "none"
  /\ port_call' = "open_port"
  /\ \E opens \in BOOLEAN : port_ret' = open_port(device_names, device_hint, opens)
  /\ UNCHANGED startup
  /\ PortFrame

\* a call of open_midi_output(device_hint)
OpenMidiOutputCall ==
  /\ port_call = "none"
  /\ port_call' = "open_midi_output"
  /\ \E opens \in BOOLEAN :
       port_ret' = open_midi_output(device_names, device_hint, opens)
  /\ UNCHANGED startup
  /\ PortFrame

\* a call of midi_panic(device_hint)
MidiPanicCall ==
  /\ port_call = "none"
  /\ port_call' = "midi_panic"
  /\ \E opens \in BOOLEAN : port_ret' = midi_panic(device_names, device_hint, opens)
  /\ UNCHANGED startup
  /\ PortFrame

\* v1 main from the listing of the devices to clock.start(): listed says
\* whether the first listing found a device, device_names is what open_port
\* finds; clock.start() sends 'start' if the clock is enabled and the send
\* does not raise
MainStart ==
  /\ port_call = "none"
  /\ port_call' = "main"
  /\ \E listed \in BOOLEAN :
       IF ~listed
       THEN port_ret' = NotCalled /\ startup' = Aborted("exit_1")
       ELSE \E opens \in BOOLEAN :
              LET ret == open_port(device_names, MainHint(device_hint), opens)
              IN  /\ port_ret' = ret
                  /\ IF ret.outcome = "RuntimeError"
                     THEN startup' = Aborted("exit_1")
                     ELSE IF ret.outcome # "port"
                     THEN startup' = Aborted("uncaught")
                     ELSE \E started \in BOOLEAN :
                            startup' =
                              [status |-> "started", clock_created |-> TRUE,
                               sequencer_constructed |-> FALSE,
                               sent |-> IF started THEN <<"start">> ELSE << >>]
  /\ PortFrame

\* v2 play_live up to the first send of LiveSequencer.run: ready says
\* whether sequences and plan are there
PlayLiveStart ==
  /\ port_call = "none"
  /\ port_call' = "play_live"
  /\ \E ready \in BOOLEAN :
       IF ~ready
       THEN /\ port_ret' = NotCalled
            /\ startup' = Aborted("ValueError")
            /\ UNCHANGED <<midi_out, port_open, live_pc>>
       ELSE \E opens \in BOOLEAN :
              LET ret == open_midi_output(device_names, device_hint, opens)
              IN  /\ port_ret' = ret
                  /\ IF ~PortObtained(ret)
                     THEN startup' = Aborted("returned")
                     ELSE \E started \in BOOLEAN :
                            startup' =
                              [status |-> "running", clock_created |-> FALSE,
                               sequencer_constructed |-> TRUE,
                               sent |-> IF started THEN <<"start">> ELSE << >>]
                  /\ IF PortObtained(ret)
                     THEN /\ midi_out' = "port"
                          /\ port_open' = TRUE
                          /\ live_pc' = "run"
                     ELSE UNCHANGED <<midi_out, port_open, live_pc>>
  /\ UNCHANGED <<closed_sends, live_signals>>
  /\ LiveFrame

\* "sequencer.run()" ends, by returning or by raising: play_live enters its
\* finally block either way (the run itself is followed in Spec)
LiveRunEnds ==
  /\ live_pc = "run"
  /\ live_pc' = "panic"
  /\ UNCHANGED <<midi_out, port_open, closed_sends, live_signals, port_vars>>
  /\ LiveFrame

\* "all_notes_off(port)" of the finally block; when a send raises, the rest
\* of the block is not executed
LivePanic ==
  /\ live_pc = "panic"
  /\ \E ok \in BOOLEAN : live_pc' = IF ok THEN "close" ELSE "raised"
  /\ UNCHANGED <<midi_out, port_open, closed_sends, live_signals, port_vars>>
  /\ LiveFrame

\* "port.close()"
LiveClose ==
  /\ live_pc = "close"
  /\ port_open' = FALSE
  /\ live_pc' = "withdraw"
  /\ UNCHANGED <<midi_out, closed_sends, live_signals, port_vars>>
  /\ LiveFrame

\* "midi_out = None", the last statement of the finally block
LiveWithdraw ==
  /\ live_pc = "withdraw"
  /\ midi_out' = "None"
  /\ live_pc' = "done"
  /\ UNCHANGED <<port_open, closed_sends, live_signals, port_vars>>
  /\ LiveFrame

\* signals delivered during one play_live
MaxLiveSignals == 1

\* signal_handler while play_live is on the stack: "running = False", and
\* all_notes_off(midi_out) when midi_out is set; a send on a closed port
\* raises, as does any send that fails, and the exception is raised where
\* the main thread is: inside run it is caught by run, inside the finally
\* block it leaves play_live
LiveSignal ==
  /\ live_pc \in {"run", "panic", "close", "withdraw"}
  /\ live_signals < MaxLiveSignals
  /\ live_signals' = live_signals + 1
  /\ running' = FALSE
  /\ IF midi_out = "None"
     THEN UNCHANGED <<live_pc, closed_sends>>
     ELSE IF ~port_open
     THEN /\ closed_sends' = closed_sends + 1
          /\ live_pc' = "raised"
     ELSE /\ \E ok \in BOOLEAN :
               live_pc' = IF ok \/ live_pc = "run" THEN live_pc ELSE "raised"
          /\ UNCHANGED closed_sends
  /\ UNCHANGED <<midi_out, port_open, port_vars>>
  /\ UNCHANGED <<sequencer_vars, shutdown_event, patt, v1_pc, v1_step, v1_lane,
                 v1_ev, note_tracker, v1_log, panic_vars, clock_vars, lane_vars,
                 rerun_vars, main_vars>>

\* ------------------------------------------------------------------------
\* v1: LaneState (src/ai-sequencer.py)
\* ------------------------------------------------------------------------

\* calls of evolve followed for one LaneState
MaxLaneCalls == 4

MIN_MOTIF_LENGTH == 2

MAX_MOTIF_LENGTH == 6

\* DEFAULT_MOTIFS["melody"]
DefaultMelody == <<0, 2, 4, 5>>

\* motif_degrees handed to LaneState: none, the three default motifs, one
\* of the minimum and one of the maximum length
MotifDegrees ==
  { << >>, <<0, 2, 4, 5>>, <<0, -2, -4>>, <<7, 9, 12>>, <<0, 7>>,
    <<0, 2, 4, 5, 7, 9>> }

\* max_register_shift handed to LaneState
RegisterShifts == {0, 1, 2}

\* random.choice([-2, -1, 1, 2])
AnchorDeltas == {-2, -1, 1, 2}

\* mutant of CanAppend: "<=" for "<"
CanAppendAtMaximum(m) == Len(m) <= MAX_MOTIF_LENGTH

\* "len(self.motif) < MAX_MOTIF_LENGTH"
CanAppend(m) == Len(m) < MAX_MOTIF_LENGTH

\* "len(self.motif) > MIN_MOTIF_LENGTH"
CanShrink(m) == Len(m) > MIN_MOTIF_LENGTH

\* LaneState.__init__
LaneInit ==
  /\ \E degrees \in MotifDegrees :
       motif = IF degrees = << >> THEN DefaultMelody ELSE degrees
  /\ register = 0
  /\ rotation = 0
  /\ \E max_register_shift \in RegisterShifts : max_reg = Max(1, max_register_shift)
  /\ lane_calls = 0
  /\ lane_prev_len = Len(motif)

\* LaneState.evolve: r is the range random.random() fell in, below 0.45,
\* below 0.8 or above; grow is "random.random() < 0.6"
LaneEvolve ==
  /\ motif # << >>
  /\ lane_calls < MaxLaneCalls
  /\ lane_calls' = lane_calls + 1
  /\ lane_prev_len' = Len(motif)
  /\ \E r \in {"below_045", "below_08", "above"}, grow \in BOOLEAN :
       IF r = "below_045" /\ CanShrink(motif)
       THEN /\ \E step \in {1, -1} : rotation' = (rotation + step) % Len(motif)
            /\ UNCHANGED <<motif, register>>
       ELSE IF r \in {"below_045", "below_08"}
       THEN /\ IF CanAppend(motif) /\ grow
               THEN \E k \in 1..Len(motif), delta \in AnchorDeltas :
                      motif' = Append(motif, Max(0, motif[k] + delta))
               ELSE IF CanShrink(motif)
               THEN \E idx \in 1..Len(motif) : motif' = PopNote(motif, idx)
               ELSE UNCHANGED motif
            /\ UNCHANGED <<register, rotation>>
       ELSE /\ \E step \in {-1, 1} :
                 register' = Clamp(-max_reg, max_reg, register + step)
            /\ UNCHANGED <<motif, rotation>>
  /\ UNCHANGED <<v2_vars, shutdown_event, patt, v1_pc, v1_step, v1_lane, v1_ev,
                 note_tracker, v1_log, panic_vars, clock_vars, port_vars, max_reg,
                 process_vars>>

\* ------------------------------------------------------------------------
\* v1: the playback loop of main and its cleanup (src/ai-sequencer.py)
\* ------------------------------------------------------------------------

\* cycles of the playback loop that are followed
MaxCycles == 2

LaneNames == {"melody", "bass", "lead"}

\* "mel_evolve_every_bars", "bass_evolve_every_bars", "lead_evolve_every_bars"
\* of CONFIG, in bars; 0 switches the evolution of a lane off
EvolveEvery ==
  { [melody |-> 1, bass |-> 2, lead |-> 0],
    [melody |-> 2, bass |-> 3, lead |-> 1] }

\* mutant of EvolveDue: a lane is evolved after every cycle
EvolveDueEveryCycle(evo, passed) == evo > 0

\* "if mel_evo > 0 and (bars_passed % mel_evo == 0)"
EvolveDue(evo, passed) == evo > 0 /\ passed % evo = 0

\* main up to the try block: GlobalState(CONFIG), the evolve-every values,
\* "bars_passed = 0"
MainInit ==
  /\ main_pc = "loop"
  /\ bars_passed = 0
  /\ lane_gen = NoLaneCalls
  /\ evolve_every \in EvolveEvery
  /\ built_from = NoLaneCalls
  /\ cycles = 0
  /\ cleanup_log = << >>

MainFrame ==
  UNCHANGED <<v2_vars, panic_vars, clock_vars, port_vars, lane_vars, live_vars,
              rerun_vars, evolve_every>>

\* main's signal_handler, "_shutdown_event.set()", delivered while main is
\* not inside play_pattern or all_notes_off
MainSignal ==
  /\ main_pc \in {"loop", "build", "play", "stop", "panic"}
  /\ v1_pc \in {"idle", "ret_true", "ret_false", "raised", "panic_done"}
  /\ ~shutdown_event
  /\ shutdown_event' = TRUE
  /\ UNCHANGED <<patt, v1_pc, v1_step, v1_lane, v1_ev, note_tracker, v1_log,
                 main_pc, bars_passed, lane_gen, built_from, cycles, cleanup_log>>
  /\ MainFrame

\* "while not _shutdown_event.is_set():"
MainLoopCheck ==
  /\ main_pc = "loop"
  /\ shutdown_event \/ cycles < MaxCycles
  /\ main_pc' = IF shutdown_event THEN "stop" ELSE "build"
  /\ UNCHANGED <<shutdown_event, patt, v1_pc, v1_step, v1_lane, v1_ev, note_tracker,
                 v1_log, bars_passed, lane_gen, built_from, cycles, cleanup_log>>
  /\ MainFrame

\* "patt = build_pattern(CONFIG, st)", which reads the three LaneStates and
\* can raise (an empty progression_degrees divides by zero), and the call of
\* play_pattern with the new pattern
MainBuild ==
  /\ main_pc = "build"
  /\ \E raises \in BOOLEAN :
       IF raises
       THEN /\ main_pc' = "stop"
            /\ UNCHANGED <<patt, v1_pc, v1_step, v1_lane, v1_ev, v1_log,
                           built_from, cycles>>
       ELSE /\ patt' \in V1Patterns
            /\ built_from' = lane_gen
            /\ cycles' = cycles + 1
            /\ v1_pc' = "step"
            /\ v1_step' = 0
            /\ v1_lane' = 1
            /\ v1_ev' = 1
            /\ v1_log' = << >>
            /\ main_pc' = "play"
  /\ UNCHANGED <<shutdown_event, note_tracker, bars_passed, lane_gen, cleanup_log>>
  /\ MainFrame

\* play_pattern is back: "if not play_pattern(...): break", "if
\* _shutdown_event.is_set(): break", "bars_passed += CONFIG.get("bars", 8)"
\* and the three evolve decisions; an exception goes to the except block;
\* the locals of the call and the record of its sends end with the call
MainAfter ==
  /\ main_pc = "play"
  /\ v1_pc \in {"ret_true", "ret_false", "raised"}
  /\ IF v1_pc # "ret_true" \/ shutdown_event
     THEN /\ main_pc' = "stop"
          /\ UNCHANGED <<bars_passed, lane_gen>>
     ELSE /\ bars_passed' = bars_passed + bars
          /\ lane_gen' =
               [name \in LaneNames |->
                  IF EvolveDue(evolve_every[name], bars_passed')
                  THEN lane_gen[name] + 1 ELSE lane_gen[name]]
          /\ main_pc' = "loop"
  /\ v1_log' = << >>
  /\ v1_step' = 0
  /\ v1_lane' = 1
  /\ v1_ev' = 1
  /\ UNCHANGED <<shutdown_event, patt, v1_pc, note_tracker, built_from, cycles,
                 cleanup_log>>
  /\ MainFrame

\* "clock.stop()", the first statement of the finally block: it returns by
\* itself, the join has a timeout and the 'stop' send is in a try block
\* (the call is followed in SpecClock)
MainClockStop ==
  /\ main_pc = "stop"
  /\ cleanup_log' = Append(cleanup_log, "clock_stop")
  /\ main_pc' = "panic"
  /\ UNCHANGED <<shutdown_event, patt, v1_pc, v1_step, v1_lane, v1_ev, note_tracker,
                 v1_log, bars_passed, lane_gen, built_from, cycles>>
  /\ MainFrame

\* all_notes_off(out, CONFIG) is back and "out.close()" is executed; an
\* exception out of all_notes_off leaves the finally block before the close
MainClose ==
  /\ main_pc = "panic"
  /\ panic_calls = 1
  /\ v1_pc \notin {"panic_cc", "panic_reset"}
  /\ IF v1_pc = "panic_done"
     THEN /\ cleanup_log' = Append(cleanup_log, "close")
          /\ main_pc' = "done"
     ELSE /\ main_pc' = "raised"
          /\ UNCHANGED cleanup_log
  /\ UNCHANGED <<shutdown_event, patt, v1_pc, v1_step, v1_lane, v1_ev, note_tracker,
                 v1_log, bars_passed, lane_gen, built_from, cycles>>
  /\ MainFrame

\* ------------------------------------------------------------------------
\* Specifications
\* ------------------------------------------------------------------------

\* the MidiClock has not been used
ClockIdle == ClockInit({TRUE}) /\ interval = 1

\* a LiveSequencer.run of v2
Init ==
  /\ SequencerInit(Inputs, 0..MaxLoopCount, "start")
  /\ PlaybackIdle
  /\ PanicIdle
  /\ ClockIdle
  /\ PortIdle
  /\ ProcessIdle
  /\ LaneIdle

\* LiveSequencer has not been constructed
SequencerIdle == SequencerInit({Input(1, 1, << >>, PatternA)}, {0}, "idle")

\* one call of v1's play_pattern
InitV1 ==
  /\ SequencerIdle
  /\ PlaybackInit
  /\ PanicIdle
  /\ ClockIdle
  /\ PortIdle
  /\ ProcessIdle
  /\ LaneIdle

NextV1 ==
  \/ V1SignalHandler
  \/ StepCheck
  \/ LaneCheck
  \/ EventStart
  \/ SendOn
  \/ GateSleep
  \/ SendOff
  \/ StepRemainder
  \/ PanicNoteOffs
  \/ PanicControllers
  \/ PanicReset

\* the EvolutionEngine called on its own
InitEngine ==
  /\ SequencerInit(EngineInputs, {0}, "engine")
  /\ PlaybackIdle
  /\ PanicIdle
  /\ ClockIdle
  /\ PortIdle
  /\ ProcessIdle
  /\ LaneIdle

NextEngine ==
  \/ EvolveCall
  \/ AddNoteCall
  \/ RemoveNoteCall

SpecEngine == InitEngine /\ [][NextEngine]_vars

\* one session of the MidiClock: start, the clock thread, stop
InitClock ==
  /\ SequencerIdle
  /\ PlaybackIdle
  /\ PanicIdle
  /\ ClockInit(BOOLEAN)
  /\ PortIdle
  /\ ProcessIdle
  /\ LaneIdle

NextClock ==
  \/ TimePasses
  \/ ClockStart
  \/ ClockStop
  \/ ClockJoin
  \/ ClockStopSend
  \/ ClockThreadInit
  \/ ClockCheck
  \/ ClockSend
  \/ ClockSchedule
  \/ ClockWake
  \/ ClockResync

SpecClock == InitClock /\ [][NextClock]_vars

\* a MidiClock whose start and stop are called again, in any order; the
\* clock thread is followed up to its first pulse and is delayed from then
\* on (what it does after the pulse is followed in SpecClock)
NextClockCalls ==
  \/ TimePasses
  \/ ClockStart
  \/ ClockStartAgain
  \/ ClockStopAgain
  \/ ClockStop
  \/ ClockJoin
  \/ ClockStopSend
  \/ ClockThreadInit
  \/ ClockCheck
  \/ ClockSend

SpecClockCalls == InitClock /\ [][NextClockCalls]_vars

SpecV1 == InitV1 /\ [][NextV1]_vars

\* main of v1 from its playback loop to the end of its finally block
InitMain ==
  /\ SequencerIdle
  /\ PlaybackIdle
  /\ PanicIdle
  /\ ClockIdle
  /\ PortIdle
  /\ LiveIdle
  /\ RerunIdle
  /\ MainInit
  /\ LaneIdle

NextMain ==
  \/ MainSignal
  \/ MainLoopCheck
  \/ MainBuild
  \/ V1SignalHandler
  \/ StepCheck
  \/ LaneCheck
  \/ EventStart
  \/ SendOn
  \/ GateSleep
  \/ SendOff
  \/ StepRemainder
  \/ MainAfter
  \/ MainClockStop
  \/ PanicNoteOffs
  \/ PanicControllers
  \/ PanicReset
  \/ MainClose

SpecMain == InitMain /\ [][NextMain]_vars

\* the main thread goes on executing the statements of its finally block
FairSpecMain ==
  /\ SpecMain
  /\ WF_vars(MainClockStop)
  /\ WF_vars(PanicNoteOffs)
  /\ WF_vars(PanicControllers)
  /\ WF_vars(PanicReset)
  /\ WF_vars(MainClose)

\* one selection of the output port, by a selection function or at startup
InitPort ==
  /\ SequencerIdle
  /\ PlaybackIdle
  /\ PanicIdle
  /\ ClockIdle
  /\ PortInit
  /\ ProcessIdle
  /\ LaneIdle

NextPort ==
  \/ OpenPortCall
  \/ OpenMidiOutputCall
  \/ MidiPanicCall
  \/ MainStart
  \/ PlayLiveStart
  \/ LiveRunEnds
  \/ LivePanic
  \/ LiveClose
  \/ LiveWithdraw
  \/ LiveSignal

SpecPort == InitPort /\ [][NextPort]_vars

\* one LaneState and its evolve calls
InitLane ==
  /\ SequencerIdle
  /\ PlaybackIdle
  /\ PanicIdle
  /\ ClockIdle
  /\ PortIdle
  /\ ProcessIdle
  /\ LaneInit

SpecLane == InitLane /\ [][LaneEvolve]_vars

Next ==
  \/ SignalHandler
  \/ RunStart
  \/ WhileCheck
  \/ ClockPulse
  \/ IdleIteration
  \/ TickUpdate
  \/ BoundaryFlush
  \/ BoundaryCount
  \/ BoundaryEvolve
  \/ ProcessAfterBoundary
  \/ DispatchNoteOff
  \/ DispatchUntracked
  \/ DispatchNoteOn
  \/ RetriggerOff
  \/ RetriggerOn
  \/ RunFinally

Spec == Init /\ [][Next]_vars

\* a run of LiveSequencer of one loop, which ends by its bound, by a signal
\* or by an exception, and a later run in the same process
InitRerun ==
  /\ SequencerInit({Input(1, 1, << >>, PatternA), Input(1, 1, <<100, 0>>, PatternE)},
                   {1}, "start")
  /\ PlaybackIdle
  /\ PanicIdle
  /\ ClockIdle
  /\ PortIdle
  /\ ProcessIdle
  /\ LaneIdle

NextRerun ==
  \/ SignalHandler
  \/ RunStart
  \/ WhileCheck
  \/ ClockPulse
  \/ IdleIteration
  \/ TickUpdate
  \/ BoundaryFlush
  \/ BoundaryCount
  \/ DispatchNoteOff
  \/ DispatchNoteOn
  \/ RunFinally
  \/ RunAgain

SpecRerun == InitRerun /\ [][NextRerun]_vars

\* a step in which no send raises
Undisturbed ==
  /\ failed_send' = "none"
  /\ pc' # "raised"

\* a run that nothing disturbs: no signal arrives and no send raises
UndisturbedNext ==
  \/ RunStart /\ Undisturbed
  \/ WhileCheck /\ Undisturbed
  \/ ClockPulse /\ Undisturbed
  \/ IdleIteration /\ Undisturbed
  \/ TickUpdate /\ Undisturbed
  \/ BoundaryFlush /\ Undisturbed
  \/ BoundaryCount /\ Undisturbed
  \/ BoundaryEvolve /\ Undisturbed
  \/ ProcessAfterBoundary /\ Undisturbed
  \/ DispatchNoteOff /\ Undisturbed
  \/ DispatchUntracked /\ Undisturbed
  \/ DispatchNoteOn /\ Undisturbed
  \/ RetriggerOff /\ Undisturbed
  \/ RetriggerOn /\ Undisturbed
  \/ RunFinally /\ Undisturbed

\* the main thread keeps running, and with time advancing the tick falls
\* due again and again
FairSpec ==
  /\ Init
  /\ [][UndisturbedNext]_vars
  /\ WF_vars(UndisturbedNext)
  /\ SF_vars(TickUpdate)

\* ------------------------------------------------------------------------
\* Properties of LiveSequencer (v2)
\* ------------------------------------------------------------------------

OnSources == {"on", "rt_off", "rt_on"}

SamePair(a, b) == a.channel = b.channel /\ a.pitch = b.pitch

\* C1: within one _process_notes call (one tick), every note-off dispatched
\* from the note-off list is sent before any note-on or retrigger of that
\* tick, whatever voices the events belong to.
C1_OffsBeforeOns ==
  \A i, j \in 1..Len(tick_log) :
    (i < j /\ tick_log[i].src \in OnSources) => tick_log[j].src # "off"

\* a tick in which a note-off of one channel was followed by a note-on of
\* another channel
C1_Witness ==
  \E i, j \in 1..Len(tick_log) :
    /\ i < j
    /\ tick_log[i].src = "off"
    /\ tick_log[j].src = "on"
    /\ tick_log[i].channel # tick_log[j].channel

\* C2: no note-on is sent for a pair that is in active_notes at the moment
\* of the send; the note-on of a retrigger directly follows the retrigger's
\* own note-off for the pair, which removed the pair, and during the gap
\* the pair is not in active_notes.
C2_NoNoteOnOverActive ==
  /\ \A i \in 1..Len(tick_log) :
       /\ tick_log[i].src \in {"on", "rt_on"} => ~tick_log[i].active
       /\ tick_log[i].src = "rt_on" =>
            /\ i > 1
            /\ tick_log[i - 1].src = "rt_off"
            /\ tick_log[i - 1].active
            /\ SamePair(tick_log[i - 1], tick_log[i])
  /\ pc = "gap" =>
       /\ tick_log # << >>
       /\ tick_log[Len(tick_log)].src = "rt_off"
       /\ tick_log[Len(tick_log)].channel = Head(note_ons)[1]
       /\ tick_log[Len(tick_log)].pitch = Head(note_ons)[2]
       /\ <<Head(note_ons)[1], Head(note_ons)[2]>> \notin ActivePairs(active_notes)

\* a retrigger went through: off, gap, on
C2_Witness ==
  \E i \in 1..Len(tick_log) : tick_log[i].src = "rt_on"

\* C3: after the boundary flush and until the first dispatch of the new
\* loop, active_notes is empty on every channel, and every pair that was
\* active when the boundary was reached was sent an explicit note-off.
C3_BoundaryLeavesNothingActive ==
  pc \in {"count", "evolve", "process"} =>
    /\ ActivePairs(active_notes) = {}
    /\ \A pair \in pre_flush :
         \E i \in 1..Len(flush_log) : flush_log[i] = pair

\* a boundary was crossed with a note still sounding
C3_Witness ==
  /\ pc = "count"
  /\ pre_flush # {}

\* C4 (as claimed): once tick s of a loop has passed, every note with start s
\* has had its note-on dispatched at tick s of that loop.
C4_EveryStartDispatched ==
  (pc = "while" /\ exit_via = "none") =>
    \A id \in NoteIds(sequences) :
      LET seq == sequences[id[1]]
          note == seq.notes[id[2]]
      IN  (note.start < current_tick /\ seq.channel \in TrackedChannels) =>
            <<seq.channel, note.pitch, note.start>> \in ons_this_loop

\* C5: when a note-off and a note-on of one (channel, pitch) fall on the
\* same tick, the note-off is sent first, the note-on goes out as a plain
\* note-on, and once a note-off was sent the pair stays out of active_notes
\* until a later note-on of the pair.
C5_AdjacentNotesHandOver ==
  \A i \in 1..Len(tick_log) :
    tick_log[i].src = "off" =>
      /\ \A j \in 1..Len(tick_log) :
           ( /\ tick_log[j].src \in OnSources
             /\ SamePair(tick_log[i], tick_log[j])
             /\ \A k \in 1..(j - 1) :
                  ~(tick_log[k].src \in OnSources /\ SamePair(tick_log[k], tick_log[j])) )
           => (i < j /\ tick_log[j].src = "on" /\ ~tick_log[j].active)
      /\ ( /\ tick_log[i].channel \in TrackedChannels
           /\ \A j \in (i + 1)..Len(tick_log) :
                ~(tick_log[j].src \in {"on", "rt_on"} /\ SamePair(tick_log[i], tick_log[j])) )
         => <<tick_log[i].channel, tick_log[i].pitch>> \notin ActivePairs(active_notes)

\* A was sounding, its note-off went out, then B's plain note-on
C5_Witness ==
  \E i, j \in 1..Len(tick_log) :
    /\ i < j
    /\ tick_log[i].src = "off"
    /\ tick_log[i].active
    /\ tick_log[j].src = "on"
    /\ SamePair(tick_log[i], tick_log[j])

LoopBoundSafety ==
  /\ exit_via = "bound" =>
       (max_loops > 0 /\ loop_count = max_loops /\ flush_count = max_loops)
  /\ (max_loops = 0 /\ pc \in {"finally", "returned", "raised"}) =>
       exit_via \in {"none", "shutdown", "exception"}
  /\ (exit_via = "none" /\ max_loops > 0) => loop_count < max_loops

\* the run returned by its loop bound, or by an exception of the Pattern
\* itself (a voice on a channel without an active list)
EndedByBound ==
  /\ pc = "returned"
  /\ \/ exit_via = "bound" /\ loop_count = max_loops
     \/ exit_via = "exception" /\ failed_send = "none"

\* C7: with no signal and no failing send, and time advancing, a run with
\* max_loops = N > 0 terminates, and it ends by the bound after exactly N
\* loop boundaries (loop_count = N) unless the Pattern itself raises; a run
\* with max_loops = 0 never leaves the loop by the bound.
C7_BoundedRunTerminates ==
  /\ []LoopBoundSafety
  /\ [](max_loops = 0 => exit_via \in {"none", "exception"})
  /\ (max_loops > 0) ~> EndedByBound

\* a bounded run of two loops ended by its bound
C7_Witness ==
  /\ pc = "returned"
  /\ exit_via = "bound"
  /\ max_loops = 2
  /\ loop_count = 2

IntensityAtStart(curve) == IF curve = << >> THEN DefaultIntensity ELSE curve[1]

C9_SendFailureConfined ==
  failed_send # "none" => exit_via # "exception"

\* ------------------------------------------------------------------------
\* Properties of play_pattern (v1)
\* ------------------------------------------------------------------------

\* the events of lane k of the pattern that fall on step s
EventsAt(k, s) == Schedule(patt, LaneOrder[k], s)

\* C10: a send that raises is caught at its event: play_pattern never
\* raises, no message is attempted a second time, and when the cycle
\* completes every event of every step had its note_on attempted.
C10_SendFailureSkipsEvent ==
  /\ v1_pc # "raised"
  /\ \A i, j \in 1..Len(v1_log) : i # j => v1_log[i] # [v1_log[j] EXCEPT !.ok = v1_log[i].ok]
  /\ v1_pc = "ret_true" =>
       \A s \in 0..(total_steps - 1) : \A k \in 1..Len(LaneOrder) :
         \A e \in 1..Len(EventsAt(k, s)) :
           \E i \in 1..Len(v1_log) :
             /\ v1_log[i].kind = "note_on"
             /\ v1_log[i].step = s /\ v1_log[i].lane = k /\ v1_log[i].ev = e

\* the cycle completed although a send had raised, and a later note went out
C10_Witness ==
  /\ v1_pc = "ret_true"
  /\ \E i, j \in 1..Len(v1_log) :
       /\ i < j
       /\ ~v1_log[i].ok
       /\ v1_log[j].kind = "note_on" /\ v1_log[j].ok

\* ------------------------------------------------------------------------
\* Properties of v1's all_notes_off
\* ------------------------------------------------------------------------

\* C11 (as claimed): all_notes_off never raises, and after a call, the first
\* as well as the second, the note tracker is empty.
C11_PanicLeavesTrackerEmpty ==
  /\ v1_pc # "raised"
  /\ (v1_pc = "panic_done" /\ panic_calls >= 1) => note_tracker = {}

\* C12 (as claimed): all_notes_off sends a note-off for every tracked pair
\* before any controller message, and for each channel in use the three
\* controller messages CC 123, CC 120 and CC 121.
C12_NoteOffsThenThreeControllers ==
  v1_pc = "panic_done" =>
    /\ \A pair \in note_tracker :
         \E i \in 1..Len(panic_log) :
           /\ panic_log[i].kind = "note_off"
           /\ <<panic_log[i].channel, panic_log[i].data>> = pair
    /\ \A i, j \in 1..Len(panic_log) :
         (panic_log[i].kind = "control_change" /\ panic_log[j].kind = "note_off")
           => j < i
    /\ \A k \in 1..Len(UsedChannels) :
         \A control \in {123, 120, 121} :
           \E i \in 1..Len(panic_log) :
             /\ panic_log[i].kind = "control_change"
             /\ panic_log[i].channel = UsedChannels[k]
             /\ panic_log[i].data = control

\* ------------------------------------------------------------------------
\* Properties of the values LiveSequencer sends
\* ------------------------------------------------------------------------

\* the run was ended by the ValueError of a Message built with the pitch of
\* the event at the head of the note-offs or note-ons of the tick
EndedByBadPitch ==
  /\ exit_via = "exception"
  /\ failed_send = "none"
  /\ \/ pc \in {"finally", "returned", "raised"} /\ note_offs # << >>
        /\ ~ValidDataByte(Head(note_offs)[2])
     \/ pc \in {"finally", "returned", "raised"} /\ note_offs = << >>
        /\ note_ons # << >> /\ ~ValidDataByte(Head(note_ons)[2])

\* C13 (as claimed): every note_on sent carries 0 <= pitch <= 127 and
\* 1 <= velocity <= 127, and an out-of-range value never ends playback.
C13_ValuesClampedNeverCrash ==
  /\ \A i \in 1..Len(tick_log) :
       tick_log[i].src \in {"on", "rt_on"} =>
         /\ tick_log[i].pitch \in 0..127
         /\ tick_log[i].velocity \in 1..127
  /\ ~EndedByBadPitch

\* ------------------------------------------------------------------------
\* Properties of the EvolutionEngine
\* ------------------------------------------------------------------------

\* C14: a call of evolve with intensity 0 changes no note of any voice, not
\* the number of notes, and not mutations_count.
C14_ZeroIntensityChangesNothing ==
  [][(evolve_calls' = evolve_calls + 1 /\ last_intensity' = 0) =>
       (sequences' = sequences /\ mutations_count' = mutations_count)]_vars

\* evolve was called with intensity 0 on a Pattern that has notes
C14_Witness ==
  /\ pc = "engine"
  /\ evolve_calls > 0
  /\ last_intensity = 0
  /\ NoteIds(sequences) # {}

\* C15: after an evolve call every field it assigned is within bounds:
\* pitch in [48,72] on channel 0 and in [36,96] on any other channel,
\* velocity in [30,127], start >= 0, duration >= 60.
C15_AssignedFieldsInBounds ==
  \A a \in last_assigned :
    LET seq == sequences[a[1]]
        note == seq.notes[a[2]]
    IN  /\ a[3] = "pitch" =>
             IF seq.channel = 0 THEN note.pitch \in 48..72
             ELSE note.pitch \in 36..96
        /\ a[3] = "velocity" => note.velocity \in 30..127
        /\ a[3] = "start" => note.start >= 0
        /\ a[3] = "duration" => (note.duration \in Int /\ note.duration >= 60)

\* a pitch far above the bass range was mutated and came out at the top of
\* the range
C15_Witness ==
  \E a \in last_assigned :
    /\ a[3] = "pitch"
    /\ sequences[a[1]].channel = 0
    /\ sequences[a[1]].notes[a[2]].pitch = 72
    /\ EngineBass[1].notes[a[2]].pitch = 100

\* C16: a remove_note call never takes a voice of at least 4 notes below 4
\* notes, and leaves a voice of exactly 4 notes as it is.
C16_RemoveKeepsFourNotes ==
  [][remove_calls' = remove_calls + 1 =>
       \A k \in 1..Len(sequences) :
         /\ Len(sequences[k].notes) >= 4 => Len(sequences'[k].notes) >= 4
         /\ Len(sequences[k].notes) = 4 => sequences'[k] = sequences[k]]_vars

\* the voice of 5 notes lost one, and remove_note was called again on the 4
C16_Witness ==
  /\ remove_calls >= 2
  /\ sequences[1].channel = 2
  /\ Len(sequences[1].notes) = 4

\* C17 (as claimed): the evolution step of a loop boundary also applies
\* note insertion and note deletion: with every evolve call of the
\* scheduler, add_note and remove_note are called.
C17_BoundaryInsertsAndDeletes ==
  (pc = "process" /\ evolve_calls > 0) =>
    (add_calls = evolve_calls /\ remove_calls = evolve_calls)

\* ------------------------------------------------------------------------
\* Properties of the MidiClock
\* ------------------------------------------------------------------------

\* C18 (as claimed): 'start' is the first realtime message of a session,
\* and no 'clock' pulse goes out after the 'stop' message went out.
C18_StartFirstNoPulseAfterStop ==
  /\ clock_log # << >> => clock_log[1].msg = "start"
  /\ \A i, j \in 1..Len(clock_log) :
       (i < j /\ clock_log[i].msg = "stop" /\ clock_log[i].ok)
         => ~(clock_log[j].msg = "clock" /\ clock_log[j].ok)

\* C19 (as claimed): once a pulse failed to send, the clock thread has ended
\* and the clock's running state is cleared.
C19_FailedPulseClearsRunning ==
  clock_hist.failed => (clk_pc = "exited" /\ ~clock_running)

\* C20 (as claimed): every pulse after the first is preceded by a sleep of
\* the clock thread: no two pulses go out back to back.
C20_NoBackToBackPulses == ~clock_hist.burst

\* C20 (amended): the deadline is absolute, base + k * interval, k pulses
\* after the thread started or last reset it; the thread sleeps only up to
\* the deadline and skips the sleep when the deadline has passed, so a late
\* thread does send pulses back to back; when it is more than 100 ms late
\* the deadline is reset to the current time, so the lateness a burst makes
\* up for is at most 100 ms.
C20_DeadlineDiscipline ==
  clk_pc \notin {"none", "init"} =>
    /\ next_tick = clock_hist.base + clock_hist.since * interval
    /\ clk_pc = "check" => next_tick >= clock_hist.read - ResyncLag
    /\ clk_pc = "resync" => clock_hist.read - next_tick > ResyncLag
    /\ (clk_pc \in {"check", "send"} /\ clock_hist.pulses > 0 /\ ~clock_hist.slept)
         => sleep_time <= 0
    /\ clk_pc = "sleep" => sleep_time > 0

\* a session in which the thread was late by less than the limit and sent
\* two pulses back to back, and late by more and reset its deadline
C20_Witness ==
  /\ clock_hist.burst
  /\ clock_hist.resyncs > 0
  /\ clock_hist.base > 0
  /\ clk_pc = "check"

\* ------------------------------------------------------------------------
\* Properties of cancellation and of the note bookkeeping
\* ------------------------------------------------------------------------

\* C23 (as claimed): when the shutdown flag is raised after note_retrigger
\* sent its note-off and before it sends its note-on, the note-on half is
\* not sent.
C23_RetriggerChecksCancellation ==
  \A i \in 1..(Len(tick_log) - 1) :
    (/\ tick_log[i].src = "rt_off"
     /\ ~tick_log[i].stopping
     /\ tick_log[i + 1].src = "rt_on") => ~tick_log[i + 1].stopping

\* every send play_pattern attempted went out
AllSendsOk == \A i \in 1..Len(v1_log) : v1_log[i].ok

\* C24: when play_pattern has returned, True or False, and none of its sends
\* raised, the note tracker is empty and every note-on it sent is followed
\* at once by the note-off of the same event, the same (channel, note).
C24_ReturnLeavesNoNoteOn ==
  (v1_pc \in {"ret_true", "ret_false"} /\ AllSendsOk) =>
    /\ note_tracker = {}
    /\ \A i \in 1..Len(v1_log) :
         v1_log[i].kind = "note_on" =>
           /\ i < Len(v1_log)
           /\ v1_log[i + 1] = [v1_log[i] EXCEPT !.kind = "note_off"]

\* play_pattern returned False out of the gate of a note: the shutdown
\* event came while the note was on, and its note-off was the last send
C24_Witness ==
  /\ v1_pc = "ret_false"
  /\ AllSendsOk
  /\ Len(v1_log) >= 2
  /\ v1_log[Len(v1_log)] = V1Entry("note_off", TRUE)

\* C26 (as claimed): active_notes[channel] contains pitch p exactly when the
\* most recent message sent for (channel, p), by the dispatcher, a
\* retrigger, a boundary flush or all_notes_off, is a note-on with a
\* velocity of at least 1.
C26_ActiveNotesMirrorSent == ActivePairs(active_notes) = sounding

\* C27 (as claimed): after any number of evolution operations every note of
\* the Pattern has 0 <= start < loop_length.
C27_StartsStayInsideLoop ==
  \A k \in 1..Len(sequences) :
    \A i \in 1..Len(sequences[k].notes) :
      sequences[k].notes[i].start \in 0..(loop_length - 1)

\* the run was ended, after 'start' went out, by the KeyError of an event
\* whose channel active_notes has no list for
EndedByUntrackedChannel ==
  /\ exit_via = "exception"
  /\ failed_send = "none"
  /\ pc \in {"finally", "returned", "raised"}
  /\ \/ note_offs # << >> /\ Head(note_offs)[1] \notin DOMAIN active_notes
     \/ /\ note_offs = << >>
        /\ note_ons # << >>
        /\ Head(note_ons)[1] \notin DOMAIN active_notes

\* C28 (as claimed): a Pattern with a voice on a channel the scheduler does
\* not track never makes run abort after playback has begun.
C28_UnhandledPatternRejectedAtLoad == ~EndedByUntrackedChannel

\* C29: once running is cleared, the loop makes at most one further tick
\* update before it leaves the loop, and a run that left the loop by the
\* flag is in the stop and flush path.
C29_ShutdownWithinOneTick ==
  /\ late_ticks <= 1
  /\ exit_via = "shutdown" => (~running /\ pc \in {"finally", "returned", "raised"})

\* the flag was cleared after the test of "while running" passed: one more
\* tick was made, then the run left the loop by the flag and returned
C29_Witness ==
  /\ late_ticks = 1
  /\ exit_via = "shutdown"
  /\ pc = "returned"

\* the fields in which two notes differ
ChangedFields(old, new) ==
  {f \in {"pitch", "velocity", "start", "duration"} : old[f] # new[f]}

\* C30: a call of evolve assigns one field to each note it selects and
\* leaves the note's other fields as they were, leaves every other note and
\* the number of notes unchanged, and raises mutations_count by the number
\* of selected notes; no operation of the engine lowers mutations_count.
C30_EvolveAssignsOneField ==
  [][/\ mutations_count' >= mutations_count
     /\ evolve_calls' = evolve_calls + 1 =>
          /\ \A a, b \in last_assigned' :
               (a[1] = b[1] /\ a[2] = b[2]) => a = b
          /\ mutations_count' = mutations_count + Cardinality(last_assigned')
          /\ NoteIds(sequences') = NoteIds(sequences)
          /\ \A id \in NoteIds(sequences) :
               \A f \in ChangedFields(sequences[id[1]].notes[id[2]],
                                      sequences'[id[1]].notes[id[2]]) :
                 <<id[1], id[2], f>> \in last_assigned'
    ]_vars

\* a call of evolve selected a note and changed one of its fields
C30_Witness ==
  /\ pc = "engine"
  /\ evolve_calls >= 1
  /\ mutations_count = Cardinality(last_assigned)
  /\ mutations_count >= 1
  /\ \E a \in last_assigned : a[3] = "start"


\* ------------------------------------------------------------------------
\* Properties of the port selection and of startup
\* ------------------------------------------------------------------------

\* two letters that are the same but for their case
SameLetter(a, b) ==
  a = b \/ {a, b} \in {{"a", "A"}, {"b", "B"}, {"c", "C"}, {"i", "I"}}

\* hint occurs in name as a substring, case ignored
OccursIgnoringCase(hint, name) ==
  \E offset \in 0..(Len(name) - Len(hint)) :
    \A k \in 1..Len(hint) : SameLetter(hint[k], name[offset + k])

\* the device the selection is to come to, for a list that is not empty
ExpectedDevice(names, hint) ==
  LET matching == {i \in 1..Len(names) : OccursIgnoringCase(hint, names[i])}
  IN  IF matching = {} THEN names[1]
      ELSE names[CHOOSE i \in matching : \A j \in matching : i <= j]

\* C21: open_port, open_midi_output and midi_panic select the first device,
\* in enumeration order, whose name contains the hint as a substring with
\* case ignored, and the first device if there is none; with no device they
\* open no port: open_port raises RuntimeError, open_midi_output returns
\* None, midi_panic returns.
C21_PortSelection ==
  port_call \in {"open_port", "open_midi_output", "midi_panic"} =>
    IF device_names = << >>
    THEN /\ port_ret.target = << >>
         /\ port_ret.outcome =
              CASE port_call = "open_port" -> "RuntimeError"
                [] port_call = "open_midi_output" -> "None"
                [] port_call = "midi_panic" -> "returned"
    ELSE port_ret.target = ExpectedDevice(device_names, device_hint)

\* a selection that took a device other than the first one, for a hint that
\* occurs in its name only when case is ignored
C21_Witness ==
  /\ port_call \in {"open_port", "open_midi_output", "midi_panic"}
  /\ Len(device_names) >= 2
  /\ port_ret.outcome = "port"
  /\ port_ret.target # device_names[1]
  /\ ~Contains(device_hint, port_ret.target)

\* C22: when main or play_live obtains no port, no clock thread was
\* created, no LiveSequencer was constructed and no message was sent; main
\* ends with a non-zero exit status, play_live returns.
C22_NoPortAbortsStartup ==
  (port_call \in {"main", "play_live"} /\ port_ret.outcome # "port") =>
    /\ ~startup.clock_created
    /\ ~startup.sequencer_constructed
    /\ startup.sent = << >>
    /\ port_call = "main" => startup.status \in {"exit_1", "uncaught"}
    /\ port_call = "play_live" => startup.status \in {"returned", "ValueError"}

\* play_live found devices, could not open the selected one, and returned
C22_Witness ==
  /\ port_call = "play_live"
  /\ device_names # << >>
  /\ port_ret.outcome = "None"
  /\ startup.status = "returned"

\* ------------------------------------------------------------------------
\* Properties of LaneState
\* ------------------------------------------------------------------------

\* C25: after any sequence of evolve calls on a LaneState whose motif began
\* with 2 to 6 degrees, the motif has 2 to 6 degrees, the last call changed
\* its length by at most one, and -max_reg <= register <= max_reg.
C25_MotifAndRegisterBounded ==
  motif # << >> =>
    /\ Len(motif) \in MIN_MOTIF_LENGTH..MAX_MOTIF_LENGTH
    /\ Len(motif) - lane_prev_len \in {-1, 0, 1}
    /\ register \in (-max_reg)..max_reg

\* a motif that grew to the maximum length, on a lane whose register is at
\* its lower limit
C25_Witness ==
  /\ lane_calls >= 2
  /\ Len(motif) = MAX_MOTIF_LENGTH
  /\ lane_prev_len = MAX_MOTIF_LENGTH - 1
  /\ register = -max_reg

\* ------------------------------------------------------------------------
\* Properties settled on the scheduler's state (v2)
\* ------------------------------------------------------------------------

\* C31: a step of the signal path, signal_handler with its all_notes_off,
\* clears running and sends; wherever in the scheduler loop it comes it
\* leaves active_notes, current_tick, loop_count and every note of the
\* Pattern as they were.
C31_SignalPathLeavesState ==
  [][(running /\ ~running' /\ exit_via' # "bound") =>
       UNCHANGED <<active_notes, current_tick, loop_count, sequences>>]_vars

\* the handler came between the note-ons of a tick, with a note tracked as
\* active: the panic silenced the port and the note is still tracked
C31_Witness ==
  /\ ~running
  /\ exit_via = "none"
  /\ pc \in {"ons", "offs", "gap"}
  /\ ActivePairs(active_notes) # {}
  /\ sounding = {}
  /\ current_tick > 0

\* C34: every call of evolve in a performance gets the same intensity, the
\* first entry of the curve (0.5 for an empty curve), whatever loop_count
\* is, because the curve is sampled at tick 0; and the index the sampling
\* computes is an index of the curve at every tick the run reaches.
C34_IntensitySameAtEveryBoundary ==
  /\ evolve_calls > 0 =>
       last_intensity = (IF intensity_curve = << >> THEN DefaultIntensity
                         ELSE intensity_curve[1])
  /\ intensity_curve # << >> =>
       /\ SampledIndex(intensity_curve, current_tick, loop_length)
            \in 0..(Len(intensity_curve) - 1)
       /\ pc = "evolve" =>
            SampledIndex(intensity_curve, current_tick, loop_length) = 0

\* the second evolve call of a run whose curve has two different entries
C34_Witness ==
  /\ evolve_calls = 2
  /\ loop_count = 2
  /\ Len(intensity_curve) = 2
  /\ intensity_curve[1] # intensity_curve[2]

\* C35 (as claimed): whenever notes are dispatched and at every point
\* between two iterations of the loop, after run has returned included,
\* 0 <= current_tick < loop_length.
C35_TickInRange ==
  pc \notin {"flush", "count"} =>
    (0 <= current_tick /\ current_tick < loop_length)

\* ------------------------------------------------------------------------
\* Properties of LaneState (v1), continued
\* ------------------------------------------------------------------------

\* C36 (as claimed): after any sequence of evolve calls the rotation offset
\* is an index of the motif, 0 <= rotation < len(motif).
C36_RotationIndexesMotif ==
  0 <= rotation /\ rotation < Len(motif)

\* ------------------------------------------------------------------------
\* Properties of play_pattern (v1), continued
\* ------------------------------------------------------------------------

\* C37: as long as no send of play_pattern has raised, the note tracker
\* holds at most one (channel, note) over all lanes, it holds one only while
\* the last message sent is that note's note-on, and every earlier note-on
\* is followed at once by the note-off of the same event.
C37_Monophonic ==
  AllSendsOk =>
    /\ Cardinality(note_tracker) <= 1
    /\ note_tracker # {} =>
         (Len(v1_log) > 0 /\ v1_log[Len(v1_log)].kind = "note_on")
    /\ \A i \in 1..(Len(v1_log) - 1) :
         v1_log[i].kind = "note_on" =>
           v1_log[i + 1] = [v1_log[i] EXCEPT !.kind = "note_off"]

\* a note of the third lane is held at a step at which another lane has
\* already played: the earlier note-on and note-off are in the log
C37_Witness ==
  /\ AllSendsOk
  /\ Cardinality(note_tracker) = 1
  /\ v1_pc = "gate"
  /\ Len(v1_log) >= 3
  /\ v1_log[Len(v1_log)].lane # v1_log[1].lane

\* ------------------------------------------------------------------------
\* Properties of the MidiClock (v1), continued
\* ------------------------------------------------------------------------

\* pulse threads that are alive
PulseThreads == (IF clk_pc \in {"none", "exited"} THEN 0 ELSE 1) + clk_extra

\* C40 (as claimed): whatever the order of the calls of start() and stop(),
\* at most one pulse thread exists at a time, and with clock_enable false
\* no message is sent and no thread is created.
C40_StartStopGuarded ==
  /\ PulseThreads <= 1
  /\ ~clock_enable => (clock_log = << >> /\ clk_pc = "none")

\* ------------------------------------------------------------------------
\* Properties of play_live (v2)
\* ------------------------------------------------------------------------

\* C38 (as claimed): at every point at which a signal can be delivered, a
\* midi_out that is not None refers to a port that is still open, and the
\* signal handler has never sent on a closed port.
C38_PublishedPortIsOpen ==
  /\ midi_out # "None" => port_open
  /\ closed_sends = 0

\* ------------------------------------------------------------------------
\* Properties of the running flag over several runs (v2)
\* ------------------------------------------------------------------------

\* the run has sent nothing but 'start' and has made no tick
NothingPlayed ==
  /\ current_tick = 0
  /\ tick_log = << >>
  /\ ever_on = {}
  /\ pc \in {"start", "while", "finally", "returned", "raised"}

PanicBegun == panic_calls > 0 \/ v1_pc \in {"panic_cc", "panic_reset", "panic_done"}

InPlaybackLoop == main_pc \in {"loop", "build", "play"}

\* C32: whichever way the playback loop of main is left, by the shutdown
\* event, by play_pattern returning False or by an exception, the finally
\* block is entered, runs clock.stop(), then all_notes_off, then the close
\* of the port, in this order and to its end, and play_pattern sends
\* nothing once all_notes_off has begun.
C32_CleanupInOrder ==
  /\ [](/\ main_pc # "raised"
        /\ (InPlaybackLoop \/ main_pc = "stop") =>
             (cleanup_log = << >> /\ ~PanicBegun)
        /\ main_pc = "panic" => cleanup_log = <<"clock_stop">>
        /\ main_pc = "done" =>
             /\ cleanup_log = <<"clock_stop", "close">>
             /\ panic_calls = 1
             /\ v1_pc = "panic_done")
  /\ [][(InPlaybackLoop /\ ~InPlaybackLoop') => main_pc' = "stop"]_vars
  /\ [][PanicBegun => (v1_log' = v1_log /\ note_tracker' = note_tracker)]_vars
  /\ (main_pc = "stop") ~> (main_pc = "done")

\* the cleanup has run to its end after play_pattern was interrupted in its
\* second cycle with a note still tracked
C32_Witness ==
  /\ main_pc = "done"
  /\ cycles = 2
  /\ v1_pc = "panic_done"
  /\ note_tracker # {}
  /\ shutdown_event
  /\ bars_passed = bars

\* C33: the pattern is assigned only by the build that precedes a call of
\* play_pattern, from the LaneStates as they are then; while play_pattern
\* runs neither the pattern nor a LaneState changes; and a lane is evolved,
\* once, only after play_pattern returned True with the shutdown event not
\* set and only when the new bars_passed is a multiple of the lane's
\* evolve-every value.
C33_LanesChangeBetweenCycles ==
  /\ [](main_pc = "play" => built_from = lane_gen)
  /\ [][patt' # patt => (main_pc = "build" /\ cycles' = cycles + 1)]_vars
  /\ [][(main_pc = "play" /\ main_pc' = "play") =>
           UNCHANGED <<patt, lane_gen, lane_vars>>]_vars
  /\ [][lane_gen' # lane_gen =>
           /\ main_pc = "play"
           /\ v1_pc = "ret_true"
           /\ ~shutdown_event
           /\ \A name \in LaneNames :
                lane_gen'[name] # lane_gen[name] =>
                  /\ lane_gen'[name] = lane_gen[name] + 1
                  /\ evolve_every[name] > 0
                  /\ bars_passed' % evolve_every[name] = 0]_vars

\* the second cycle plays a pattern built after the melody lane was
\* evolved and the bass lane, due every second bar, was not
C33_Witness ==
  /\ main_pc = "play"
  /\ cycles = 2
  /\ v1_pc = "gate"
  /\ lane_gen["melody"] = 1
  /\ lane_gen["bass"] = 0
  /\ evolve_every["bass"] = 2
  /\ built_from = lane_gen

====
